---- MODULE Spec2Model ----
(***************************************************************************)
(* Verification model of the blog front-end's content pipeline:            *)
(*   - slugify / uniqueSlug / the per-post render pass of PostsList        *)
(*     (src/src/components/PostsList.tsx),                                 *)
(*   - the HTML-to-Markdown Normalizer described in spec.md section 4.1.   *)
(* Strings are sequences of one-character strings, so that the character   *)
(* level transformations (lowercasing, trimming, regular-expression        *)
(* replacement, splitting into lines) are computed, not assumed.           *)
(***************************************************************************)
EXTENDS Integers, Sequences, FiniteSets, TLC

VARIABLES
    posts,       \* PostsList state `posts`: sequence of [id, body]
    view,        \* what the last render pass of PostsList produced, per post
    slugCounts,  \* the Map created on line 191, as the last pass left it
    cause,       \* what triggered the last render pass
    slugIn,      \* argument of a slugify call
    slugOut,     \* its result (NotRun before the call)
    fragment,    \* rich-text fragment handed to the Normalizer
    markdown,    \* the Normalizer's output (NotRun before the call)
    config,      \* the build's environment: Firebase configured, admin email
    currentUser, \* auth.currentUser
    writes,      \* the Firestore writes in flight
    issued,      \* the number of Firestore writes issued so far
    event,       \* the handler or callback that ran last
    blogAdmin,   \* state of a BlogAdmin component
    snapshot,    \* the snapshot a listener of the page was called with last
    commentSection, \* state of a CommentSection component
    postsList,   \* state of a PostsList component besides posts
    subscribe,   \* a request to the subscribe endpoint and its handling
    loginForm    \* state of a LoginForm component

vars ==
    <<posts, view, slugCounts, cause, slugIn, slugOut, fragment, markdown,
      config, currentUser, writes, issued, event, blogAdmin, snapshot,
      commentSection, postsList, subscribe, loginForm>>

renderVars == <<posts, view, slugCounts, cause>>
slugVars == <<slugIn, slugOut>>
normVars == <<fragment, markdown>>
envVars == <<config, currentUser, writes, issued, event>>
appVars ==
    <<envVars, blogAdmin, snapshot, commentSection, postsList, subscribe, loginForm>>

(***************************************************************************)
(* Bounds of the model.                                                    *)
(***************************************************************************)
\* longest string handed to slugify in the exhaustive enumeration
MaxLen == 4
\* total number of markdown lines in one snapshot of the posts collection
MaxLines == 3
\* nesting depth of the enumerated rich-text fragments
MaxDepth == 2
\* number of Firestore writes a component issues in one behaviour
MaxWrites == 1
\* number of images an admin uploads into one post body
MaxImages == 1
\* number of auth calls a LoginForm makes
MaxCalls == 2

\* Values that are not strings of characters: a one-element sequence whose
\* element is no single character, so that it differs from every string.
Undefined == <<"undefined">>
NotRun == <<"not-run">>

(***************************************************************************)
(* Characters and strings.                                                 *)
(***************************************************************************)
UpperCase ==
    <<"A","B","C","D","E","F","G","H","I","J","K","L","M",
      "N","O","P","Q","R","S","T","U","V","W","X","Y","Z">>

LowerCase ==
    <<"a","b","c","d","e","f","g","h","i","j","k","l","m",
      "n","o","p","q","r","s","t","u","v","w","x","y","z">>

Digits == {"0","1","2","3","4","5","6","7","8","9"}

Range(s) == {s[i] : i \in DOMAIN s}

\* String.prototype.toLowerCase on one character
ToLowerChar(c) ==
    IF \E i \in DOMAIN UpperCase : UpperCase[i] = c
    THEN LowerCase[CHOOSE i \in DOMAIN UpperCase : UpperCase[i] = c]
    ELSE c

\* the regular expression class \w : [A-Za-z0-9_]
WordChars == Range(UpperCase) \cup Range(LowerCase) \cup Digits \cup {"_"}

\* the regular expression class \s (also what String.prototype.trim strips)
SpaceChars == {" ", "\t", "\n", "\r", "\f"}

HyphenChars == {"-"}

\* String.prototype.toLowerCase
toLowerCase(s) == [i \in DOMAIN s |-> ToLowerChar(s[i])]

RECURSIVE TrimStart(_)
TrimStart(s) ==
    IF s # <<>> /\ Head(s) \in SpaceChars THEN TrimStart(Tail(s)) ELSE s

RECURSIVE TrimEnd(_)
TrimEnd(s) ==
    IF s # <<>> /\ s[Len(s)] \in SpaceChars
    THEN TrimEnd(SubSeq(s, 1, Len(s) - 1))
    ELSE s

\* String.prototype.trim
trim(s) == TrimEnd(TrimStart(s))

\* s.replace(/[^C]/g, '') for a character class C
RemoveNotIn(s, class) == SelectSeq(s, LAMBDA c : c \in class)

\* the length of the longest prefix of s made of characters of the class
RECURSIVE RunLength(_, _)
RunLength(s, class) ==
    IF s # <<>> /\ Head(s) \in class
    THEN 1 + RunLength(Tail(s), class)
    ELSE 0

\* s.replace(/C+/g, r) for a character class C: a left-to-right scan that
\* replaces each maximal run by r
RECURSIVE ReplaceRuns(_, _, _)
ReplaceRuns(s, class, r) ==
    IF s = <<>> THEN <<>>
    ELSE IF Head(s) \in class
         THEN r \o ReplaceRuns(SubSeq(s, RunLength(s, class) + 1, Len(s)), class, r)
         ELSE <<Head(s)>> \o ReplaceRuns(Tail(s), class, r)

\* the class [\w\s-]
SlugChars == WordChars \cup SpaceChars \cup HyphenChars

\* String(value ?? '')
StringOrEmpty(value) == IF value = Undefined THEN <<>> ELSE value

\* a slugify that strips the punctuation before it trims
slugifyStripFirst(value) ==
    ReplaceRuns(
        ReplaceRuns(
            trim(RemoveNotIn(toLowerCase(StringOrEmpty(value)), SlugChars)),
            SpaceChars, <<"-">>),
        HyphenChars, <<"-">>)

\* PostsList.slugify
slugify(value) ==
    ReplaceRuns(
        ReplaceRuns(
            RemoveNotIn(trim(toLowerCase(StringOrEmpty(value))), SlugChars),
            SpaceChars, <<"-">>),
        HyphenChars, <<"-">>)

(***************************************************************************)
(* Strings handed to slugify.                                              *)
(***************************************************************************)
SlugAlphabet == {"A", "b", "1", "_", " ", "\t", "-", "!"}

StringsUpTo(alphabet, n) == UNION {[1..k -> alphabet] : k \in 0..n}

HelloWorldText == <<"H","e","l","l","o",","," ","W","o","r","l","d","!">>

SlugInputs == StringsUpTo(SlugAlphabet, MaxLen) \cup {HelloWorldText, Undefined}

(***************************************************************************)
(* marked.lexer, for the block structure the render pass reads: ATX        *)
(* headings (1 to 6 '#', then whitespace or the end of the line; the text  *)
(* is the rest, trimmed) and paragraphs.  Blank lines yield no token that  *)
(* the render pass looks at.  The texts of the model hold no inline        *)
(* markup and no character that HTML escapes, so the `text` and `raw`      *)
(* marked hands to renderer.heading both equal the token's text.           *)
(***************************************************************************)
RECURSIVE SplitLines(_)
SplitLines(src) ==
    LET n == RunLength(src, {c \in Range(src) : c # "\n"})
    IN  IF n = Len(src) THEN <<src>>
        ELSE <<SubSeq(src, 1, n)>> \o SplitLines(SubSeq(src, n + 2, Len(src)))

LexLine(line) ==
    LET hashes == RunLength(line, {"#"})
        rest == SubSeq(line, hashes + 1, Len(line))
    IN  IF trim(line) = <<>> THEN <<>>
        ELSE IF hashes \in 1..6 /\ (rest = <<>> \/ Head(rest) \in SpaceChars)
             THEN <<[type |-> "heading", depth |-> hashes, text |-> trim(rest)]>>
             ELSE <<[type |-> "paragraph", depth |-> 0, text |-> trim(line)]>>

RECURSIVE LexLines(_)
LexLines(lines) ==
    IF lines = <<>> THEN <<>> ELSE LexLine(Head(lines)) \o LexLines(Tail(lines))

\* marked.lexer(src): the lexer calls src.replace first, which throws a
\* TypeError when src is undefined
lexer(src) ==
    IF src = Undefined
    THEN [thrown |-> TRUE, tokens |-> <<>>]
    ELSE [thrown |-> FALSE, tokens |-> LexLines(SplitLines(src))]

(***************************************************************************)
(* The slug-collision counter: a JavaScript Map, entries in insertion      *)
(* order.                                                                  *)
(***************************************************************************)
MapHas(m, k) == \E i \in DOMAIN m : m[i].key = k

\* Map.prototype.get of a key the map has
MapGet(m, k) == m[CHOOSE i \in DOMAIN m : m[i].key = k].n

\* Map.prototype.set
MapSet(m, k, v) ==
    IF MapHas(m, k)
    THEN [i \in DOMAIN m |-> IF m[i].key = k THEN [key |-> k, n |-> v] ELSE m[i]]
    ELSE Append(m, [key |-> k, n |-> v])

DigitChar == <<"0","1","2","3","4","5","6","7","8","9">>

\* the decimal numeral of n, as a template literal prints a number
RECURSIVE ToDecimal(_)
ToDecimal(n) ==
    IF n < 10 THEN <<DigitChar[n + 1]>>
    ELSE ToDecimal(n \div 10) \o <<DigitChar[(n % 10) + 1]>>

\* a counter that is not created afresh but kept from the pass before
KeepSlugCounts(carried) == carried

\* line 191: const slugCounts = new Map<string, number>()
NewSlugCounts(carried) == <<>>

\* slugCounts.get(base) ?? 0
CountOf(counts, base) == IF MapHas(counts, base) THEN MapGet(counts, base) ELSE 0

\* lines 195-196: slugCounts.set(base, count + 1) and the id returned
SlugResult(base, count, counts) ==
    [id |-> IF count # 0 THEN base \o <<"-">> \o ToDecimal(count) ELSE base,
     counts |-> MapSet(counts, base, count + 1)]

\* lines 194-196, for the base slug of line 193
UniqueSlugOfBase(base, counts) == SlugResult(base, CountOf(counts, base), counts)

\* lines 192-197: uniqueSlug, returning the id and the counter as it leaves it
uniqueSlug(text, counts) == UniqueSlugOfBase(slugify(text), counts)

\* a contents filter that lets depth 4 through
IsTocHeadingUpTo4(t) == t.type = "heading" /\ t.depth <= 4

\* lines 200-202: the filter of headingTokens
IsTocHeading(t) == t.type = "heading" /\ t.depth <= 3

\* t.text ?? ''
TextOrEmpty(text) == IF text = Undefined THEN <<>> ELSE text

\* lines 203-207: one entry { depth, text, id } of toc, u being what
\* uniqueSlug returned
TocEntry(acc, t, u) ==
    [toc |-> Append(acc.toc, [depth |-> t.depth, text |-> TextOrEmpty(t.text),
                              id |-> u.id]),
     counts |-> u.counts]

TocStep(acc, t) == TocEntry(acc, t, uniqueSlug(TextOrEmpty(t.text), acc.counts))

\* lines 203-207: toc = headingTokens.map(...), the counter threaded through
\* the calls of uniqueSlug; acc is [toc, counts] so far
RECURSIVE TocPass(_, _)
TocPass(headingTokens, acc) ==
    IF headingTokens = <<>> THEN acc
    ELSE TocPass(Tail(headingTokens), TocStep(acc, Head(headingTokens)))

\* line 211: raw ?? text ?? ''
HeadingText(text, raw) == IF raw # Undefined THEN raw ELSE TextOrEmpty(text)

\* line 213: the element <h{level} id="{id}">{text}</h{level}>, kept as a
\* record of its tag, level, id attribute and content
HeadingElement(text, level, u) ==
    [element |-> [tag |-> "h", level |-> level, id |-> u.id, text |-> text],
     counts |-> u.counts]

\* lines 210-214: renderer.heading(text, level, raw)
RendererHeading(text, level, raw, counts) ==
    HeadingElement(text, level, uniqueSlug(HeadingText(text, raw), counts))

ParagraphElement(t) == [tag |-> "p", level |-> 0, id |-> Undefined, text |-> t.text]

AddElement(acc, h) == [html |-> Append(acc.html, h.element), counts |-> h.counts]

ParserStep(acc, t) ==
    IF t.type = "heading"
    THEN AddElement(acc, RendererHeading(t.text, t.depth, t.text, acc.counts))
    ELSE [html |-> Append(acc.html, ParagraphElement(t)), counts |-> acc.counts]

\* line 215: marked.parser(tokens, { renderer }): every token serialized in
\* order, headings through renderer.heading; acc is [html, counts] so far
RECURSIVE ParserPass(_, _)
ParserPass(tokens, acc) ==
    IF tokens = <<>> THEN acc
    ELSE ParserPass(Tail(tokens), ParserStep(acc, Head(tokens)))

\* a body handed to the lexer as it is
BodyAsIs(body) == body

\* line 199: post.body || ''
BodyOrEmpty(body) == IF body = Undefined \/ body = <<>> THEN <<>> ELSE body

\* what the callback of posts.map returns for a post: its contents list and
\* its HTML; `failed` records that the callback threw
PostViewOf(id, toc, h) ==
    [view |-> [id |-> id, failed |-> FALSE, toc |-> toc, html |-> h.html],
     counts |-> h.counts]

\* line 215 after lines 203-207: the parser runs with the counter the
\* contents pass left
PostView(id, t, tokens) ==
    PostViewOf(id, t.toc, ParserPass(tokens, [html |-> <<>>, counts |-> t.counts]))

\* lines 200-215, for the tokens of line 199
RenderTokens(id, lexed, counts) ==
    IF lexed.thrown
    THEN [view |-> [id |-> id, failed |-> TRUE, toc |-> <<>>, html |-> <<>>],
          counts |-> counts]
    ELSE PostView(id,
                  TocPass(SelectSeq(lexed.tokens, IsTocHeading),
                          [toc |-> <<>>, counts |-> counts]),
                  lexed.tokens)

\* lines 190-215: the body of posts.map for one post
RenderPost(post, carried) ==
    RenderTokens(post.id, lexer(BodyOrEmpty(post.body)), NewSlugCounts(carried))

(***************************************************************************)
(* One render pass of PostsList: posts.map over the list.                  *)
(***************************************************************************)
AddView(acc, r) == [views |-> Append(acc.views, r.view), counts |-> r.counts]

\* posts.map with the counter handed from one post to the next
RECURSIVE RenderPostsSharing(_, _)
RenderPostsSharing(ps, acc) ==
    IF ps = <<>> THEN acc
    ELSE RenderPostsSharing(
            Tail(ps),
            AddView(acc, RenderTokens(Head(ps).id, lexer(BodyOrEmpty(Head(ps).body)),
                                      acc.counts)))

\* a pass whose counter is created once, above posts.map
RenderPostsHoisted(ps, carried) ==
    RenderPostsSharing(ps, [views |-> <<>>, counts |-> <<>>])

RECURSIVE RenderPostsFrom(_, _)
RenderPostsFrom(ps, acc) ==
    IF ps = <<>> THEN acc
    ELSE RenderPostsFrom(Tail(ps), AddView(acc, RenderPost(Head(ps), acc.counts)))

\* lines 190-400: posts.map((post) => { ... }); `carried` is the counter the
\* code before left behind, `counts` the one this pass leaves
RenderPosts(ps, carried) == RenderPostsFrom(ps, [views |-> <<>>, counts |-> carried])

(***************************************************************************)
(* Post bodies of the model: markdown documents made of these lines.       *)
(***************************************************************************)
LineA == <<"#"," ","a">>
LineA2 == <<"#","#"," ","A","!">>
LineA1 == <<"#","#","#"," ","a","-","1">>
LineDeep == <<"#","#","#","#"," ","a">>
LinePara == <<"a"," ","b">>
Lines == {LineA, LineA2, LineA1, LineDeep, LinePara}

PostIds == {"p1", "p2"}

\* the number of lines of a body
LinesOf(body) ==
    IF body = Undefined \/ body = <<>> THEN 0
    ELSE 1 + Len(SelectSeq(body, LAMBDA c : c = "\n"))

RECURSIVE TotalLines(_)
TotalLines(ps) ==
    IF ps = <<>> THEN 0 ELSE LinesOf(Head(ps).body) + TotalLines(Tail(ps))

\* the body with one more line
WithLine(body, line) ==
    IF body = Undefined \/ body = <<>> THEN line ELSE body \o <<"\n">> \o line

\* The lists the next snapshot of the collection may deliver: the documents
\* of the last one with a document created (the newest comes first; it may
\* lack the body field), a document deleted, or a body edited by one line.
NextSnapshots(ps) ==
    {<<[id |-> i, body |-> b]>> \o ps :
        i \in PostIds \ {ps[k].id : k \in DOMAIN ps}, b \in {Undefined, <<>>}}
    \cup {SelectSeq(ps, LAMBDA q : q.id # i) : i \in {ps[k].id : k \in DOMAIN ps}}
    \cup {[ps EXCEPT ![k].body = WithLine(ps[k].body, l)] :
            k \in {j \in DOMAIN ps : TotalLines(ps) < MaxLines}, l \in Lines}

(***************************************************************************)
(* PostsList: state and operations.                                        *)
(***************************************************************************)
RenderInit ==
    /\ posts = <<>>
    /\ view = <<>>
    /\ slugCounts = <<>>
    /\ cause = "mount"

\* the outcome of a render pass becomes what is shown
ShowPass(pass, why) ==
    /\ view' = pass.views
    /\ slugCounts' = pass.counts
    /\ cause' = why

\* a render pass over the list ps
RenderPass(ps, why) == ShowPass(RenderPosts(ps, slugCounts), why)

\* lines 49-55: the onSnapshot callback; setPosts(next) makes React render
OnSnapshot ==
    \E next \in NextSnapshots(posts) :
        /\ posts' = next
        /\ RenderPass(next, "snapshot")
        /\ UNCHANGED <<slugVars, normVars, appVars>>

\* any other state change of the component (setAdmin, setError, an edit):
\* React renders the same posts again
Rerender ==
    /\ posts' = posts
    /\ RenderPass(posts, "rerender")
    /\ UNCHANGED <<slugVars, normVars, appVars>>

(***************************************************************************)
(* A call of slugify.                                                      *)
(***************************************************************************)
SlugIdle == slugIn = <<>> /\ slugOut = NotRun

SlugInit == slugIn \in SlugInputs /\ slugOut = NotRun

CallSlugify ==
    /\ slugOut = NotRun
    /\ slugOut' = slugify(slugIn)
    /\ UNCHANGED <<slugIn, renderVars, normVars, appVars>>

(***************************************************************************)
(* The HTML-to-Markdown Normalizer (spec.md 4.1).  A node of the           *)
(* fragment is a record: tag "#text" with its text, or an element with     *)
(* its tag, its attributes (Undefined when absent) and its children.       *)
(***************************************************************************)
Text(chars) ==
    [tag |-> "#text", text |-> chars, href |-> Undefined, src |-> Undefined,
     alt |-> Undefined, children |-> <<>>]

Elem(tag, children) ==
    [tag |-> tag, text |-> <<>>, href |-> Undefined, src |-> Undefined,
     alt |-> Undefined, children |-> children]

Link(href, children) == [Elem("a", children) EXCEPT !.href = href]

Image(src, alt) == [Elem("img", <<>>) EXCEPT !.src = src, !.alt = alt]

\* the strings of a sequence joined by a separator
RECURSIVE Join(_, _)
Join(strings, sep) ==
    IF strings = <<>> THEN <<>>
    ELSE IF Len(strings) = 1 THEN strings[1]
         ELSE strings[1] \o sep \o Join(Tail(strings), sep)

RECURSIVE Repeat(_, _)
Repeat(s, n) == IF n = 0 THEN <<>> ELSE s \o Repeat(s, n - 1)

\* text node: runs of whitespace collapsed to a single space
TextPolicy(text) == ReplaceRuns(text, SpaceChars, <<" ">>)

\* an inline element that loses its marks
Unwrapped(mark, content) == content

\* strong, emphasis, inline code: the content between the marks, or nothing
Wrapped(mark, content) == IF content # <<>> THEN mark \o content \o mark ELSE <<>>

\* link: [content-or-href](href) if href is present, else the bare content
LinkPolicy(href, content) ==
    IF href # Undefined /\ href # <<>>
    THEN <<"[">> \o (IF content # <<>> THEN content ELSE href) \o <<"]", "(">>
         \o href \o <<")">>
    ELSE content

\* paragraph, div: the content and a blank line
BlockPolicy(content) == content \o <<"\n", "\n">>

\* heading of level 1-4
HeadingPolicy(level, content) ==
    Repeat(<<"#">>, level) \o <<" ">> \o content \o <<"\n", "\n">>

\* an image whose alt has no default
ImagePolicyNoDefault(src, alt) ==
    IF src # Undefined /\ src # <<>>
    THEN <<"!", "[">> \o (IF alt # Undefined THEN alt ELSE <<>>)
         \o <<"]", "(">> \o src \o <<")">>
    ELSE <<>>

\* image: ![alt](src) if src is present, else nothing; alt defaults to "image"
ImagePolicy(src, alt) ==
    IF src # Undefined /\ src # <<>>
    THEN <<"!", "[">>
         \o (IF alt # Undefined /\ alt # <<>> THEN alt ELSE <<"i","m","a","g","e">>)
         \o <<"]", "(">> \o src \o <<")">>
    ELSE <<>>

\* a list whose items are separated by blank lines and that ends without one
ListPolicySpaced(lines) == Join(lines, <<"\n", "\n">>)

\* unordered and ordered list: the item lines joined by newlines, and a
\* trailing blank line
ListPolicy(lines) == Join(lines, <<"\n">>) \o <<"\n", "\n">>

\* a list item line: the prefix and the content
ItemLine(prefix, content) == prefix \o content

\* list item: the prefix the caller supplied, or "- ", the content, a newline
ItemPolicy(prefix, content) ==
    ItemLine(IF prefix # Undefined THEN prefix ELSE <<"-", " ">>, content) \o <<"\n">>

\* an element of an unknown type whose content is dropped
DropContent(content) == <<>>

\* any other element: the content only
PassThrough(content) == content

\* the mark of inline code, the character U+0060, written by its name
CodeMark == <<"U+0060">>

HeadingLevels == [h1 |-> 1, h2 |-> 2, h3 |-> 3, h4 |-> 4]

\* the per-element policy, for the content (the children serialized and
\* concatenated) and the item lines (of a list's direct list-item children)
Format(node, prefix, content, lines) ==
    CASE node.tag = "#text" -> TextPolicy(node.text)
      [] node.tag \in {"strong", "b"} -> Wrapped(<<"*", "*">>, content)
      [] node.tag \in {"em", "i"} -> Wrapped(<<"*">>, content)
      [] node.tag = "code" -> Wrapped(CodeMark, content)
      [] node.tag = "a" -> LinkPolicy(node.href, content)
      [] node.tag = "br" -> <<"\n">>
      [] node.tag \in {"p", "div"} -> BlockPolicy(content)
      [] node.tag \in DOMAIN HeadingLevels -> HeadingPolicy(HeadingLevels[node.tag], content)
      [] node.tag \in {"ul", "ol"} -> ListPolicy(lines)
      [] node.tag = "li" -> ItemPolicy(prefix, content)
      [] node.tag = "img" -> ImagePolicy(node.src, node.alt)
      [] OTHER -> PassThrough(content)

\* the prefix of the n-th item of a list
ItemPrefix(listTag, n) ==
    IF listTag = "ol" THEN ToDecimal(n) \o <<".", " ">> ELSE <<"-", " ">>

RECURSIVE serialize(_, _)
RECURSIVE SerializeAll(_)
RECURSIVE ItemLines(_, _, _)

\* the children serialized depth-first and concatenated
SerializeAll(nodes) ==
    IF nodes = <<>> THEN <<>>
    ELSE serialize(Head(nodes), Undefined) \o SerializeAll(Tail(nodes))

\* the lines of the direct list-item children of a list, the n-th item next
ItemLines(nodes, listTag, n) ==
    IF nodes = <<>> THEN <<>>
    ELSE IF Head(nodes).tag = "li"
         THEN <<ItemLine(ItemPrefix(listTag, n), SerializeAll(Head(nodes).children))>>
              \o ItemLines(Tail(nodes), listTag, n + 1)
         ELSE ItemLines(Tail(nodes), listTag, n)

\* one node serialized to markdown
serialize(node, prefix) ==
    Format(node, prefix, SerializeAll(node.children),
           IF node.tag \in {"ul", "ol"} THEN ItemLines(node.children, node.tag, 1)
           ELSE <<>>)

\* an output that is not trimmed
Untrimmed(s) == s

\* the final output is trimmed of leading and trailing whitespace
Finish(s) == trim(s)

\* the Normalizer: the serialization of the fragment's body, trimmed
htmlToMarkdown(body) == Finish(serialize(body, Undefined))

(***************************************************************************)
(* Fragments of the model: every tree of the element types below to a      *)
(* bounded nesting depth, and the fragments spec.md names.                 *)
(***************************************************************************)
TextA == Text(<<"a">>)
TextSpaced == Text(<<" ", "b", " ", "\n", "c">>)
ImageX == Image(<<"x", ".", "p", "n", "g">>, Undefined)

Leaves == {TextA, TextSpaced, ImageX}

Shells ==
    {Elem(t, <<>>) : t \in {"strong", "em", "p", "h2", "ul", "ol", "li", "span"}}
    \cup {Link(<<"u">>, <<>>)}

\* children of an element: none, one node, one node and a text, one node twice
KidSeqs(nodes) ==
    {<<>>} \cup {<<c>> : c \in nodes}
    \cup {<<c, TextA>> : c \in nodes}
    \cup {<<c, c>> : c \in nodes}

RECURSIVE Trees(_)
Trees(d) ==
    IF d = 0 THEN Leaves
    ELSE Leaves \cup {[s EXCEPT !.children = kids] :
                        s \in Shells, kids \in KidSeqs(Trees(d - 1))}

One == <<"o", "n", "e">>
Two == <<"t", "w", "o">>

ExampleList == Elem("ul", <<Elem("li", <<Text(One)>>), Elem("li", <<Text(Two)>>)>>)

ExampleParagraph ==
    Elem("p", <<Elem("strong", <<TextA>>), Text(<<" ">>), Elem("em", <<Text(<<"b">>)>>)>>)

\* the same paragraph as a pretty-printed source gives it: the text node
\* between the two elements is a run of whitespace
ExampleParagraphSpaced ==
    Elem("p", <<Elem("strong", <<TextA>>), Text(<<" ", "\n", " ">>),
                Elem("em", <<Text(<<"b">>)>>)>>)

XPng == <<"x", ".", "p", "n", "g">>
Alt == <<"a", "l", "t">>

Examples ==
    {Elem("body", <<ExampleList>>),
     Elem("body", <<ExampleParagraphSpaced>>),
     Elem("body", <<Elem("p", <<Image(XPng, Alt), Image(Undefined, Undefined)>>)>>),
     Elem("body", <<ExampleList, Text(One)>>),
     Elem("body", <<Elem("ol", <<Elem("li", <<Text(One)>>), Elem("li", <<Text(Two)>>)>>)>>),
     Elem("body", <<ExampleParagraph>>),
     Elem("body", <<ImageX>>),
     Elem("body", <<Image(<<"x", ".", "p", "n", "g">>, <<"a", "l", "t">>)>>),
     Elem("body", <<Image(Undefined, <<"a", "l", "t">>)>>),
     Elem("body", <<Elem("h5", <<Elem("code", <<TextA>>), Elem("br", <<>>), TextA>>)>>),
     Elem("body", <<Elem("p", <<Elem("span", <<Elem("h5", <<Elem("b", <<TextA>>)>>)>>)>>)>>)}

\* the fragments of nesting depth d or less, each below its body
Fragments(d) == {Elem("body", <<t>>) : t \in Trees(d)} \cup Examples

(***************************************************************************)
(* A paste of a rich-text fragment.                                        *)
(***************************************************************************)
NormIdle == fragment = <<>> /\ markdown = NotRun

NormInit == fragment \in Fragments(MaxDepth) /\ markdown = NotRun

Paste ==
    /\ markdown = NotRun
    /\ markdown' = htmlToMarkdown(fragment)
    /\ UNCHANGED <<fragment, renderVars, slugVars, appVars>>

(***************************************************************************)
(* The environment of the components: the build's configuration, the      *)
(* Firebase auth state and the Firestore writes the components issue.      *)
(***************************************************************************)
pipelineVars == <<renderVars, slugVars, normVars>>

\* no user signed in
NullUser == [uid |-> "null", email |-> Undefined]

\* the account whose email is the admin email but for the case of a letter
AdminAccount == [uid |-> "u1", email |-> <<"A", "@", "x">>]

OtherAccount == [uid |-> "u2", email |-> <<"b", "@", "x">>]

Accounts == {AdminAccount, OtherAccount}

\* PUBLIC_ADMIN_EMAIL, set or missing, and whether the Firebase client keys
\* are all set (firebaseReady; then app, auth and db are defined)
Configs ==
    {[ready |-> TRUE, adminEmail |-> <<"a", "@", "x">>],
     [ready |-> TRUE, adminEmail |-> Undefined],
     [ready |-> FALSE, adminEmail |-> <<"a", "@", "x">>]}

\* user.email || ''
EmailOrEmpty(user) ==
    IF user = NullUser \/ user.email = Undefined THEN <<>> ELSE user.email

\* an admin test that compares the emails as they are written
isAdminExact(user, adminEmail) ==
    IF user = NullUser \/ adminEmail = Undefined \/ adminEmail = <<>> THEN FALSE
    ELSE EmailOrEmpty(user) = adminEmail

\* utils/auth isAdmin
isAdmin(user, adminEmail) ==
    IF user = NullUser \/ adminEmail = Undefined \/ adminEmail = <<>> THEN FALSE
    ELSE toLowerCase(EmailOrEmpty(user)) = toLowerCase(adminEmail)

\* what the failure of a Firestore call throws: a FirebaseError with its
\* code, another Error, or a value that is no Error
Failures ==
    {[isError |-> TRUE, firebase |-> TRUE, code |-> "permission-denied",
      message |-> "Missing or insufficient permissions."],
      [isError |-> TRUE, firebase |-> FALSE, code |-> "", message |-> "Network error"],
     [isError |-> FALSE, firebase |-> FALSE, code |-> "", message |-> ""]}

\* a write handed to Firestore: the call, the collection, the document id,
\* the document or the fields, and the user signed in when it was issued
Write(op, coll, id, data, by) ==
    [op |-> op, coll |-> coll, id |-> id, data |-> data, by |-> by]

\* the writes in flight that a component issued
Pending(op, coll) ==
    {i \in DOMAIN writes : writes[i].op = op /\ writes[i].coll = coll}

Issue(w) == writes' = Append(writes, w) /\ issued' = issued + 1

\* the promise of the i-th write in flight is resolved or rejected
Settle(i) ==
    /\ writes' = SubSeq(writes, 1, i - 1) \o SubSeq(writes, i + 1, Len(writes))
    /\ issued' = issued

EnvIdle ==
    /\ config = [ready |-> FALSE, adminEmail |-> Undefined]
    /\ currentUser = NullUser
    /\ writes = <<>>
    /\ issued = 0
    /\ event = "none"

EnvInit ==
    /\ config \in Configs
    /\ currentUser \in (IF config.ready THEN Accounts \cup {NullUser} ELSE {NullUser})
    /\ writes = <<>>
    /\ issued = 0
    /\ event = "mount"

(***************************************************************************)
(* BlogAdmin (src/src/components/BlogAdmin.tsx, the version of lines       *)
(* 217-505).                                                               *)
(***************************************************************************)
blogAdminFrame ==
    <<pipelineVars, snapshot, commentSection, postsList, subscribe, loginForm>>

\* what the admin types into the title and body fields
FieldTexts == {<<>>, <<" ">>, <<" ", "t", " ">>}

\* what the admin types into the tags field
TagTexts == {<<>>, <<"x", ",", " ", ",", "y">>}

\* s.split(c)
RECURSIVE Split(_, _)
Split(s, c) ==
    IF RunLength(s, Range(s) \ {c}) = Len(s) THEN <<s>>
    ELSE <<SubSeq(s, 1, RunLength(s, Range(s) \ {c}))>>
         \o Split(SubSeq(s, RunLength(s, Range(s) \ {c}) + 2, Len(s)), c)

RECURSIVE TrimEach(_)
TrimEach(parts) ==
    IF parts = <<>> THEN <<>> ELSE <<trim(Head(parts))>> \o TrimEach(Tail(parts))

\* lines 289-292: tags.split(',').map((t) => t.trim()).filter(Boolean)
TagList(tags) == SelectSeq(TrimEach(Split(tags, ",")), LAMBDA t : t # <<>>)

\* lines 226-233: BlogAdmin's slugify
BlogAdminSlugify(value) ==
    ReplaceRuns(
        ReplaceRuns(RemoveNotIn(trim(toLowerCase(value)), SlugChars), SpaceChars, <<"-">>),
        HyphenChars, <<"-">>)

SlugOrPost(base) == IF base # <<>> THEN base ELSE <<"p", "o", "s", "t">>

\* line 288: `${slugify(title) || 'post'}-${Date.now()}`
PostSlug(title, now) == SlugOrPost(BlogAdminSlugify(title)) \o <<"-">> \o ToDecimal(now)

\* the values of Date.now()
Nows == {7}

\* lines 294-302: the document handed to addDoc
NewPost(title, body, tags, now, user) ==
    [title |-> trim(title), body |-> trim(body), slug |-> PostSlug(title, now),
     authorEmail |-> EmailOrEmpty(user), tags |-> TagList(tags),
     createdAt |-> "serverTimestamp", updatedAt |-> "serverTimestamp"]

NotReadyMessage == "Firebase is not ready. Check your environment variables."
AdminOnlyMessage == "Only the admin can publish posts."
RequiredMessage == "Title and body are required."
PublishedMessage == "Post published to Firestore."
PermissionDeniedMessage ==
    "Permission denied. Ensure Firestore rules allow the admin email and you are signed in as that admin."

\* guards that test the fields before the admin flag
SubmitErrorFieldsFirst(ready, adminUser, title, body) ==
    IF ~ready THEN NotReadyMessage
    ELSE IF trim(title) = <<>> \/ trim(body) = <<>> THEN RequiredMessage
    ELSE IF ~adminUser THEN AdminOnlyMessage
    ELSE ""

\* lines 268-281: the guards of handleSubmit; the error of the first guard
\* that fails, "" if none does
SubmitError(ready, adminUser, title, body) ==
    IF ~ready THEN NotReadyMessage
    ELSE IF ~adminUser THEN AdminOnlyMessage
    ELSE IF trim(title) = <<>> \/ trim(body) = <<>> THEN RequiredMessage
    ELSE ""

\* an error handler that shows the message of every Error
PublishErrorPlain(err) ==
    IF err.isError THEN err.message ELSE "Unable to publish post."

\* lines 307-314: the catch block of handleSubmit
PublishError(err) ==
    IF err.firebase /\ err.code = "permission-denied" THEN PermissionDeniedMessage
    ELSE IF err.isError THEN err.message
    ELSE "Unable to publish post."

\* no BlogAdmin on the page
BlogAdminAbsent ==
    [title |-> <<>>, body |-> <<>>, tags |-> <<>>, status |-> "",
     error |-> "", loading |-> FALSE, adminUser |-> FALSE,
     checkedAuth |-> FALSE, uploading |-> FALSE, mounted |-> FALSE,
     waiting |-> FALSE]

BlogAdminIdle == blogAdmin = BlogAdminAbsent

\* lines 236-243 and 255: the state after the first render and its effect
BlogAdminInit ==
    blogAdmin = [BlogAdminAbsent EXCEPT !.mounted = TRUE, !.waiting = TRUE]

\* lines 373-402: the form is what the component renders
FormShown ==
    /\ blogAdmin.mounted
    /\ config.ready
    /\ blogAdmin.checkedAuth
    /\ blogAdmin.adminUser

\* the user waitForUser resolves with (utils/auth): null without auth, else
\* the user of the first auth-state callback
WaitedUser == IF config.ready THEN currentUser ELSE NullUser

\* a resolution that is not checked against the mounted flag
SetAdminAlways(mounted, state, user) ==
    [state EXCEPT !.adminUser = isAdmin(user, config.adminEmail),
                  !.checkedAuth = TRUE, !.waiting = FALSE]

\* lines 256-260: the continuation of waitForUser().then
SetAdmin(mounted, state, user) ==
    IF ~mounted THEN [state EXCEPT !.waiting = FALSE]
    ELSE [state EXCEPT !.adminUser = isAdmin(user, config.adminEmail),
                       !.checkedAuth = TRUE, !.waiting = FALSE]

BlogAdminWaitForUser ==
    /\ blogAdmin.waiting
    /\ blogAdmin' = SetAdmin(blogAdmin.mounted, blogAdmin, WaitedUser)
    /\ event' = "BlogAdmin.waitForUser"
    /\ UNCHANGED <<config, currentUser, writes, issued, blogAdminFrame>>

\* lines 261-263: the cleanup of the effect, at unmount
BlogAdminUnmount ==
    /\ blogAdmin.mounted
    /\ blogAdmin' = [blogAdmin EXCEPT !.mounted = FALSE]
    /\ event' = "BlogAdmin.unmount"
    /\ UNCHANGED <<config, currentUser, writes, issued, blogAdminFrame>>

\* a sign-in, a sign-out or a switch of account, here or in another tab
AuthChange ==
    /\ config.ready
    /\ \E user \in (Accounts \cup {NullUser}) \ {currentUser} : currentUser' = user
    /\ event' = "authChange"

\* lines 415, 426, 473: the onChange handlers of the three fields
BlogAdminSetTitle ==
    /\ FormShown
    /\ \E v \in FieldTexts \ {blogAdmin.title} : blogAdmin' = [blogAdmin EXCEPT !.title = v]
    /\ event' = "BlogAdmin.setTitle"
    /\ UNCHANGED <<config, currentUser, writes, issued, blogAdminFrame>>

BlogAdminSetBody ==
    /\ FormShown
    /\ \E v \in FieldTexts \ {blogAdmin.body} : blogAdmin' = [blogAdmin EXCEPT !.body = v]
    /\ event' = "BlogAdmin.setBody"
    /\ UNCHANGED <<config, currentUser, writes, issued, blogAdminFrame>>

BlogAdminSetTags ==
    /\ FormShown
    /\ \E v \in TagTexts \ {blogAdmin.tags} : blogAdmin' = [blogAdmin EXCEPT !.tags = v]
    /\ event' = "BlogAdmin.setTags"
    /\ UNCHANGED <<config, currentUser, writes, issued, blogAdminFrame>>

\* lines 269-280: a guard failed
SubmitRejected(message) ==
    /\ blogAdmin' = [blogAdmin EXCEPT !.error = message]
    /\ UNCHANGED <<writes, issued>>

\* lines 283-302: the request is issued
SubmitIssued(now) ==
    /\ blogAdmin' = [blogAdmin EXCEPT !.loading = TRUE, !.error = "", !.status = ""]
    /\ Issue(Write("addDoc", "posts", "new",
                   NewPost(blogAdmin.title, blogAdmin.body, blogAdmin.tags, now,
                           currentUser),
                   currentUser))

SubmitWith(message, now) ==
    IF message # "" THEN SubmitRejected(message) ELSE SubmitIssued(now)

\* lines 266-302: handleSubmit up to the await; the form is submitted through
\* its button, which is disabled while loading (line 496)
BlogAdminHandleSubmit ==
    /\ FormShown
    /\ ~blogAdmin.loading
    /\ issued < MaxWrites
    /\ \E now \in Nows :
          SubmitWith(SubmitError(config.ready, blogAdmin.adminUser,
                                 blogAdmin.title, blogAdmin.body), now)
    /\ event' = "BlogAdmin.handleSubmit"
    /\ UNCHANGED <<config, currentUser, blogAdminFrame>>

\* a state update of a component that is unmounted is dropped
SetState(state, next) == IF state.mounted THEN next ELSE state

\* lines 303-306 and 315-317: addDoc resolved
BlogAdminPublished ==
    /\ \E i \in Pending("addDoc", "posts") : Settle(i)
    /\ blogAdmin' = SetState(blogAdmin,
                             [blogAdmin EXCEPT !.status = PublishedMessage, !.title = <<>>,
                                               !.body = <<>>, !.tags = <<>>,
                                               !.loading = FALSE])
    /\ event' = "BlogAdmin.published"
    /\ UNCHANGED <<config, currentUser, blogAdminFrame>>

\* lines 307-317: addDoc rejected
BlogAdminPublishFailed ==
    /\ \E i \in Pending("addDoc", "posts") : Settle(i)
    /\ \E err \in Failures :
          blogAdmin' = SetState(blogAdmin,
                                [blogAdmin EXCEPT !.error = PublishError(err),
                                                  !.loading = FALSE])
    /\ event' = "BlogAdmin.publishFailed"
    /\ UNCHANGED <<config, currentUser, blogAdminFrame>>

UploadedMessage == "Image uploaded and inserted."

\* the markdown of an uploaded image, `![${file.name}](${downloadUrl})`
ImageMarkdown == <<"!", "[", "f", "]", "(", "u", ")">>

ImagesIn(body) == Len(SelectSeq(body, LAMBDA c : c = "!"))

\* lines 320-328: applyFormatting(before, ''), the cursor at the end of the
\* body
applyFormatting(body, before) == body \o before

\* lines 352-357: onFileChange up to the await; the file dialog is opened
\* by the upload button, which is disabled while uploading (line 463)
BlogAdminOnFileChange ==
    /\ FormShown
    /\ ~blogAdmin.uploading
    /\ ImagesIn(blogAdmin.body) < MaxImages
    /\ blogAdmin' = [blogAdmin EXCEPT !.uploading = TRUE, !.error = ""]
    /\ event' = "BlogAdmin.onFileChange"
    /\ UNCHANGED <<config, currentUser, writes, issued, blogAdminFrame>>

\* lines 361-364 and 367-369: the upload succeeded; the textarea of an
\* unmounted component is gone and applyFormatting returns at once
BlogAdminUploaded ==
    /\ blogAdmin.uploading
    /\ blogAdmin' = SetState(blogAdmin,
                             [blogAdmin EXCEPT !.body = applyFormatting(@, ImageMarkdown),
                                               !.status = UploadedMessage,
                                               !.uploading = FALSE])
    /\ event' = "BlogAdmin.uploaded"
    /\ UNCHANGED <<config, currentUser, writes, issued, blogAdminFrame>>

\* lines 365-369: the upload failed
BlogAdminUploadFailed ==
    /\ blogAdmin.uploading
    /\ blogAdmin.mounted
    /\ \E err \in Failures :
          blogAdmin' = [blogAdmin EXCEPT
                           !.error = IF err.isError THEN err.message
                                     ELSE "Image upload failed.",
                           !.uploading = FALSE]
    /\ event' = "BlogAdmin.uploadFailed"
    /\ UNCHANGED <<config, currentUser, writes, issued, blogAdminFrame>>

BlogAdminSteps ==
    \/ BlogAdminWaitForUser
    \/ BlogAdminUnmount
    \/ BlogAdminSetTitle
    \/ BlogAdminSetBody
    \/ BlogAdminSetTags
    \/ BlogAdminHandleSubmit
    \/ BlogAdminPublished
    \/ BlogAdminPublishFailed
    \/ BlogAdminOnFileChange
    \/ BlogAdminUploaded
    \/ BlogAdminUploadFailed

(***************************************************************************)
(* CommentSection (src/src/components/CommentSection.tsx).                 *)
(***************************************************************************)
commentsFrame == <<pipelineVars, blogAdmin, postsList, subscribe, loginForm>>

\* what a reader types into the comment field and into the alias field
CommentTexts == {<<>>, <<" ">>, <<" ", "c", " ">>}

AliasTexts == {<<>>, <<"n">>}

\* collection(db, 'posts', postId, 'comments')
CommentsPath(postId) == IF postId = "p1" THEN "posts/p1/comments" ELSE "posts/p2/comments"

\* a document of a comments collection
CommentDoc(id) == [id |-> id, data |-> [text |-> <<"c">>, alias |-> <<"n">>]]

\* the ids of the comments of a post, the oldest first
CommentIds(postId) == IF postId = "p1" THEN <<"c1", "c2">> ELSE <<"c3", "c4">>

\* the documents a snapshot of the comments of a post may hold, the newest
\* first
CommentSnapshots(postId) ==
    {<<>>, <<CommentDoc(CommentIds(postId)[1])>>,
     <<CommentDoc(CommentIds(postId)[2]), CommentDoc(CommentIds(postId)[1])>>}

\* no snapshot was delivered yet
NoSnapshot == [to |-> "none", path |-> "none", docs |-> <<>>]

\* { id: doc.id, ...data }: the fields of data, and id unless data has one
Spread(doc) ==
    [f \in {"id"} \cup DOMAIN doc.data |->
        IF f \in DOMAIN doc.data THEN doc.data[f] ELSE doc.id]

\* a list in the reverse order of the snapshot
DocsReversed(docs) == [i \in DOMAIN docs |-> Spread(docs[Len(docs) + 1 - i])]

\* lines 66-69 (PostsList lines 50-53): snapshot.docs.map((doc) => ({ id:
\* doc.id, ...data }))
DocsToItems(docs) == [i \in DOMAIN docs |-> Spread(docs[i])]

LoginRequiredMessage == "You must be logged in to comment."
EmptyCommentMessage == "Comment cannot be empty."

\* guards that test the text before the user
CommentErrorTextFirst(user, hasRef, text) ==
    IF trim(text) = <<>> THEN EmptyCommentMessage
    ELSE IF user = NullUser \/ ~hasRef THEN LoginRequiredMessage
    ELSE ""

\* lines 99-107: the guards of handleSubmit; the error of the first guard
\* that fails, "" if none does
CommentError(user, hasRef, text) ==
    IF user = NullUser \/ ~hasRef THEN LoginRequiredMessage
    ELSE IF trim(text) = <<>> THEN EmptyCommentMessage
    ELSE ""

\* line 115: alias || user.displayName || user.email || 'Anonymous' (the
\* accounts of the model have no display name)
AliasOf(alias, user) ==
    IF alias # <<>> THEN alias
    ELSE IF EmailOrEmpty(user) # <<>> THEN EmailOrEmpty(user)
    ELSE <<"A", "n", "o", "n", "y", "m", "o", "u", "s">>

\* lines 113-119: the document handed to addDoc
NewComment(text, alias, user) ==
    [text |-> trim(text), alias |-> AliasOf(alias, user), userId |-> user.uid,
     userEmail |-> EmailOrEmpty(user), createdAt |-> "serverTimestamp"]

\* what a catch block tells apart: an Error and a value that is none
Thrown == {f \in Failures : ~f.firebase}

\* what a catch block shows: err instanceof Error ? err.message : fallback
MessageOr(err, fallback) == IF err.isError THEN err.message ELSE fallback

\* no CommentSection on the page
CommentsAbsent ==
    [postId |-> "p1", user |-> NullUser, checking |-> TRUE, comments |-> <<>>,
     alias |-> <<>>, text |-> <<>>, loading |-> FALSE, error |-> "", admin |-> FALSE,
     deletingId |-> "null", mounted |-> FALSE, authPending |-> FALSE,
     authSub |-> FALSE, snapSubs |-> {}]

CommentsIdle == commentSection = CommentsAbsent

\* lines 32-40, 47-60 and 62-73: the state after the first render and its
\* effects; without auth checking is set to false at once, without db no
\* query is made
CommentsInit ==
    commentSection = [CommentsAbsent EXCEPT !.mounted = TRUE,
                                            !.checking = config.ready,
                                            !.authPending = config.ready,
                                            !.authSub = config.ready,
                                            !.snapSubs = IF config.ready THEN {"p1"} ELSE {}]

\* lines 53-57: the callback of onAuthStateChanged
OnAuthState(state, user) ==
    [state EXCEPT !.user = user, !.admin = isAdmin(user, config.adminEmail),
                  !.checking = FALSE]

\* the listener is called with every change of the auth state, once it was
\* called with the first one
CommentsNotified(state, user) ==
    IF state.authSub /\ ~state.authPending THEN OnAuthState(state, user) ELSE state

\* the first call of the auth listener
CommentsAuthCallback ==
    /\ commentSection.authSub
    /\ commentSection.authPending
    /\ commentSection' = [OnAuthState(commentSection, currentUser) EXCEPT
                             !.authPending = FALSE]
    /\ event' = "CommentSection.authCallback"
    /\ UNCHANGED <<config, currentUser, writes, issued, snapshot, commentsFrame>>

\* lines 81-95 and 143: the comment form is rendered for a signed-in user
CommentsShown ==
    /\ commentSection.mounted
    /\ config.ready
    /\ ~commentSection.checking

CommentFormShown == CommentsShown /\ commentSection.user # NullUser

\* a subscription set that keeps the listener of the old query
KeepOldSubscription(subs, postId) == subs \cup {postId}

\* lines 62-73: the cleanup of the snapshot effect unsubscribes the old
\* query, the effect subscribes to the new one
Resubscribe(subs, postId) == {postId}

\* the page passes the postId of another post (once: from the first post to
\* the second)
CommentsPostIdChange ==
    /\ commentSection.mounted
    /\ commentSection.postId = "p1"
    /\ \E p \in PostIds \ {commentSection.postId} :
          commentSection' =
              [commentSection EXCEPT
                  !.postId = p,
                  !.snapSubs = IF config.ready THEN Resubscribe(@, p) ELSE {}]
    /\ event' = "CommentSection.postIdChange"
    /\ UNCHANGED <<config, currentUser, writes, issued, snapshot, commentsFrame>>

\* lines 59 and 72: the cleanups of both effects, at unmount
CommentsUnmount ==
    /\ commentSection.mounted
    /\ commentSection' = [commentSection EXCEPT !.mounted = FALSE, !.authSub = FALSE,
                                                !.authPending = FALSE, !.snapSubs = {}]
    /\ event' = "CommentSection.unmount"
    /\ UNCHANGED <<config, currentUser, writes, issued, snapshot, commentsFrame>>

\* lines 65-71: the onSnapshot callback of a query that is subscribed
CommentsSnapshot ==
    /\ \E p \in commentSection.snapSubs :
          \E docs \in CommentSnapshots(p) :
             /\ snapshot' = [to |-> "CommentSection", path |-> CommentsPath(p),
                             docs |-> docs]
             /\ commentSection' = [commentSection EXCEPT !.comments = DocsToItems(docs)]
    /\ event' = "CommentSection.snapshot"
    /\ UNCHANGED <<config, currentUser, writes, issued, commentsFrame>>

\* lines 155 and 166: the onChange handlers of the two fields
CommentsSetAlias ==
    /\ CommentFormShown
    /\ \E v \in AliasTexts \ {commentSection.alias} :
          commentSection' = [commentSection EXCEPT !.alias = v]
    /\ event' = "CommentSection.setAlias"
    /\ UNCHANGED <<config, currentUser, writes, issued, snapshot, commentsFrame>>

CommentsSetText ==
    /\ CommentFormShown
    /\ \E v \in CommentTexts \ {commentSection.text} :
          commentSection' = [commentSection EXCEPT !.text = v]
    /\ event' = "CommentSection.setText"
    /\ UNCHANGED <<config, currentUser, writes, issued, snapshot, commentsFrame>>

\* lines 99-106: a guard failed
CommentRejected(message) ==
    /\ commentSection' = [commentSection EXCEPT !.error = message]
    /\ UNCHANGED <<writes, issued>>

\* lines 108-119: the request is issued
CommentIssued ==
    /\ commentSection' = [commentSection EXCEPT !.loading = TRUE, !.error = ""]
    /\ Issue(Write("addDoc", CommentsPath(commentSection.postId), "new",
                   NewComment(commentSection.text, commentSection.alias,
                              commentSection.user),
                   currentUser))

CommentWith(message) ==
    IF message # "" THEN CommentRejected(message) ELSE CommentIssued

\* lines 97-119: handleSubmit up to the await; the form is submitted through
\* its button, which is disabled while loading (line 179)
CommentsHandleSubmit ==
    /\ CommentFormShown
    /\ ~commentSection.loading
    /\ issued < MaxWrites
    /\ CommentWith(CommentError(commentSection.user, config.ready, commentSection.text))
    /\ event' = "CommentSection.handleSubmit"
    /\ UNCHANGED <<config, currentUser, snapshot, commentsFrame>>

\* lines 120 and 123-125: addDoc resolved
CommentsPosted ==
    /\ \E p \in PostIds : \E i \in Pending("addDoc", CommentsPath(p)) : Settle(i)
    /\ commentSection' = SetState(commentSection,
                                  [commentSection EXCEPT !.text = <<>>, !.loading = FALSE])
    /\ event' = "CommentSection.posted"
    /\ UNCHANGED <<config, currentUser, snapshot, commentsFrame>>

\* lines 121-125: addDoc rejected
CommentsPostFailed ==
    /\ \E p \in PostIds : \E i \in Pending("addDoc", CommentsPath(p)) : Settle(i)
    /\ \E err \in Thrown :
          commentSection' =
              SetState(commentSection,
                       [commentSection EXCEPT
                           !.error = MessageOr(err, "Unable to post comment."),
                           !.loading = FALSE])
    /\ event' = "CommentSection.postFailed"
    /\ UNCHANGED <<config, currentUser, snapshot, commentsFrame>>

\* lines 128-132: handleDelete up to the await; the button is rendered for
\* the admin with every comment and disabled for the one being deleted
\* (lines 202-210)
CommentsHandleDelete ==
    /\ CommentsShown
    /\ commentSection.admin
    /\ issued < MaxWrites
    /\ \E k \in DOMAIN commentSection.comments :
          /\ commentSection.comments[k].id # commentSection.deletingId
          /\ commentSection' = [commentSection EXCEPT
                                   !.deletingId = commentSection.comments[k].id,
                                   !.error = ""]
          /\ Issue(Write("deleteDoc", CommentsPath(commentSection.postId),
                         commentSection.comments[k].id, <<>>, currentUser))
    /\ event' = "CommentSection.handleDelete"
    /\ UNCHANGED <<config, currentUser, snapshot, commentsFrame>>

\* lines 132 and 135-137: deleteDoc resolved
CommentsDeleted ==
    /\ \E p \in PostIds : \E i \in Pending("deleteDoc", CommentsPath(p)) : Settle(i)
    /\ commentSection' = SetState(commentSection,
                                  [commentSection EXCEPT !.deletingId = "null"])
    /\ event' = "CommentSection.deleted"
    /\ UNCHANGED <<config, currentUser, snapshot, commentsFrame>>

\* lines 133-137: deleteDoc rejected
CommentsDeleteFailed ==
    /\ \E p \in PostIds : \E i \in Pending("deleteDoc", CommentsPath(p)) : Settle(i)
    /\ \E err \in Thrown :
          commentSection' =
              SetState(commentSection,
                       [commentSection EXCEPT
                           !.error = MessageOr(err, "Unable to delete comment."),
                           !.deletingId = "null"])
    /\ event' = "CommentSection.deleteFailed"
    /\ UNCHANGED <<config, currentUser, snapshot, commentsFrame>>

CommentsSteps ==
    \/ CommentsAuthCallback
    \/ CommentsPostIdChange
    \/ CommentsUnmount
    \/ CommentsSnapshot
    \/ CommentsSetAlias
    \/ CommentsSetText
    \/ CommentsHandleSubmit
    \/ CommentsPosted
    \/ CommentsPostFailed
    \/ CommentsHandleDelete
    \/ CommentsDeleted
    \/ CommentsDeleteFailed

(***************************************************************************)
(* PostsList: the admin's handlers (src/src/components/PostsList.tsx lines *)
(* 29-122).  The render pass of a list is the subject of Spec; here view,  *)
(* slugCounts and cause stay idle.                                         *)
(***************************************************************************)
postsListFrame ==
    <<view, slugCounts, cause, slugVars, normVars, blogAdmin, commentSection, subscribe,
      loginForm>>

\* a document of the posts collection
PostDoc(id, title) ==
    [id |-> id, data |-> [title |-> title, body |-> <<"b">>, tags |-> <<<<"x">>, <<"y">>>>]]

\* the documents a snapshot of the posts may hold, the newest first: none,
\* one post, a second post
PostSnapshots ==
    {<<>>, <<PostDoc("p1", <<"t">>)>>,
     <<PostDoc("p2", <<"t">>), PostDoc("p1", <<"t">>)>>}

\* what the admin types into the fields of the edit form
EditTexts == {<<" ">>, <<" ", "u", " ">>}

EditBodyTexts == {<<" ">>}

EditTagTexts == {<<"z", ",", " ">>}

RequiredToUpdateMessage == "Title and body are required to update a post."

\* lines 151-155: toTagArray (the same chain as BlogAdmin's tagList)
toTagArray(value) == TagList(value)

\* lines 106-111: the fields handed to updateDoc
PostUpdate(editTitle, editBody, editTags) ==
    [title |-> trim(editTitle), body |-> trim(editBody), tags |-> toTagArray(editTags),
     updatedAt |-> "serverTimestamp"]

\* guards that test the fields only
SaveOutcomeNoAdminTest(admin, hasRef, editTitle, editBody) ==
    IF trim(editTitle) = <<>> \/ trim(editBody) = <<>> THEN "rejected" ELSE "write"

\* lines 102-106: the guards of handleSave: a silent return, the error, or
\* the write
SaveOutcome(admin, hasRef, editTitle, editBody) ==
    IF ~admin \/ ~hasRef THEN "return"
    ELSE IF trim(editTitle) = <<>> \/ trim(editBody) = <<>> THEN "rejected"
    ELSE "write"

\* no PostsList on the page
PostsListAbsent ==
    [admin |-> FALSE, deletingId |-> "null", error |-> "", editingId |-> "null",
     editTitle |-> <<>>, editBody |-> <<>>, savingId |-> "null", editTags |-> <<>>,
     mounted |-> FALSE, authPending |-> FALSE, authSub |-> FALSE, snapSub |-> FALSE]

PostsListIdle == postsList = PostsListAbsent

\* lines 30-39, 46-57 and 59-67: the state after the first render and its
\* effects; without db no query is made, without auth no listener
PostsListInit ==
    postsList = [PostsListAbsent EXCEPT !.mounted = TRUE, !.authPending = config.ready,
                                        !.authSub = config.ready,
                                        !.snapSub = config.ready]

\* lines 63-65: the callback of onAuthStateChanged
PostsOnAuthState(state, user) ==
    [state EXCEPT !.admin = isAdmin(user, config.adminEmail)]

PostsNotified(state, user) ==
    IF state.authSub /\ ~state.authPending THEN PostsOnAuthState(state, user) ELSE state

\* the first call of the auth listener
PostsAuthCallback ==
    /\ postsList.authSub
    /\ postsList.authPending
    /\ postsList' = [PostsOnAuthState(postsList, currentUser) EXCEPT !.authPending = FALSE]
    /\ event' = "PostsList.authCallback"
    /\ UNCHANGED <<config, currentUser, writes, issued, snapshot, posts, postsListFrame>>

\* lines 56 and 66: the cleanups of both effects, at unmount
PostsUnmount ==
    /\ postsList.mounted
    /\ postsList' = [postsList EXCEPT !.mounted = FALSE, !.authSub = FALSE,
                                      !.authPending = FALSE, !.snapSub = FALSE]
    /\ event' = "PostsList.unmount"
    /\ UNCHANGED <<config, currentUser, writes, issued, snapshot, posts, postsListFrame>>

\* lines 49-55: the onSnapshot callback of the query, while subscribed
PostsSnapshot ==
    /\ postsList.snapSub
    /\ \E docs \in PostSnapshots :
          /\ snapshot' = [to |-> "PostsList", path |-> "posts", docs |-> docs]
          /\ posts' = DocsToItems(docs)
    /\ event' = "PostsList.snapshot"
    /\ UNCHANGED <<config, currentUser, writes, issued, postsList, postsListFrame>>

\* lines 164-190: the posts are rendered
PostsShown == postsList.mounted /\ config.ready /\ posts # <<>>

\* line 221: the edit form of a post that is in the list
EditFormShown ==
    /\ PostsShown
    /\ \E k \in DOMAIN posts : posts[k].id = postsList.editingId

\* lines 87-93: startEdit, from the Edit button the admin sees on a post
\* that is not being edited (lines 353-358)
PostsStartEdit ==
    /\ PostsShown
    /\ postsList.admin
    /\ \E k \in DOMAIN posts :
          /\ posts[k].id # postsList.editingId
          /\ postsList' = [postsList EXCEPT !.editingId = posts[k].id,
                                            !.editTitle = posts[k].title,
                                            !.editBody = posts[k].body,
                                            !.editTags = Join(posts[k].tags, <<",", " ">>),
                                            !.error = ""]
    /\ event' = "PostsList.startEdit"
    /\ UNCHANGED <<config, currentUser, writes, issued, snapshot, posts, postsListFrame>>

\* lines 95-99: cancelEdit (editTags is not reset)
cancelEdit(state) ==
    [state EXCEPT !.editingId = "null", !.editTitle = <<>>, !.editBody = <<>>]

\* line 318: the Cancel button of the edit form
PostsCancelEdit ==
    /\ EditFormShown
    /\ postsList' = cancelEdit(postsList)
    /\ event' = "PostsList.cancelEdit"
    /\ UNCHANGED <<config, currentUser, writes, issued, snapshot, posts, postsListFrame>>

\* lines 226, 232, 305: the onChange handlers of the edit form
PostsSetEditTitle ==
    /\ EditFormShown
    /\ \E v \in EditTexts \ {postsList.editTitle} :
          postsList' = [postsList EXCEPT !.editTitle = v]
    /\ event' = "PostsList.setEditTitle"
    /\ UNCHANGED <<config, currentUser, writes, issued, snapshot, posts, postsListFrame>>

PostsSetEditBody ==
    /\ EditFormShown
    /\ \E v \in EditBodyTexts \ {postsList.editBody} :
          postsList' = [postsList EXCEPT !.editBody = v]
    /\ event' = "PostsList.setEditBody"
    /\ UNCHANGED <<config, currentUser, writes, issued, snapshot, posts, postsListFrame>>

PostsSetEditTags ==
    /\ EditFormShown
    /\ \E v \in EditTagTexts \ {postsList.editTags} :
          postsList' = [postsList EXCEPT !.editTags = v]
    /\ event' = "PostsList.setEditTags"
    /\ UNCHANGED <<config, currentUser, writes, issued, snapshot, posts, postsListFrame>>

\* lines 102-122: handleSave(postId) up to the await, by its outcome
SaveWith(outcome, postId) ==
    CASE outcome = "return" -> UNCHANGED <<postsList, writes, issued>>
      [] outcome = "rejected" ->
            /\ postsList' = [postsList EXCEPT !.error = RequiredToUpdateMessage]
            /\ UNCHANGED <<writes, issued>>
      [] outcome = "write" ->
            /\ postsList' = [postsList EXCEPT !.savingId = postId, !.error = ""]
            /\ Issue(Write("updateDoc", "posts", postId,
                           PostUpdate(postsList.editTitle, postsList.editBody,
                                      postsList.editTags),
                           currentUser))

\* lines 101-111: handleSave of the post being edited, from the Save button,
\* which is disabled while that post is being saved (lines 313-314)
PostsHandleSave ==
    /\ EditFormShown
    /\ postsList.savingId # postsList.editingId
    /\ issued < MaxWrites
    /\ SaveWith(SaveOutcome(postsList.admin, config.ready, postsList.editTitle,
                            postsList.editBody),
                postsList.editingId)
    /\ event' = "PostsList.handleSave"
    /\ UNCHANGED <<config, currentUser, snapshot, posts, postsListFrame>>

\* lines 112 and 115-117: updateDoc resolved: cancelEdit(), setSavingId(null)
PostsSaved ==
    /\ \E i \in Pending("updateDoc", "posts") : Settle(i)
    /\ postsList' = SetState(postsList, [cancelEdit(postsList) EXCEPT !.savingId = "null"])
    /\ event' = "PostsList.saved"
    /\ UNCHANGED <<config, currentUser, snapshot, posts, postsListFrame>>

\* lines 113-117: updateDoc rejected
PostsSaveFailed ==
    /\ \E i \in Pending("updateDoc", "posts") : Settle(i)
    /\ \E err \in Thrown :
          postsList' = SetState(postsList,
                                [postsList EXCEPT
                                    !.error = MessageOr(err, "Unable to update post."),
                                    !.savingId = "null"])
    /\ event' = "PostsList.saveFailed"
    /\ UNCHANGED <<config, currentUser, snapshot, posts, postsListFrame>>

\* lines 69-73: handleDeletePost up to the await, from the Delete button of
\* the edit form (lines 321-325) or the one the admin sees on a post (lines
\* 353-366), disabled for the post being deleted; not the admin: a silent
\* return
PostsHandleDeletePost ==
    /\ PostsShown
    /\ issued < MaxWrites
    /\ \E k \in DOMAIN posts :
          /\ posts[k].id # postsList.deletingId
          /\ postsList.admin \/ posts[k].id = postsList.editingId
          /\ IF ~postsList.admin THEN UNCHANGED <<postsList, writes, issued>>
             ELSE /\ postsList' = [postsList EXCEPT !.deletingId = posts[k].id,
                                                    !.error = ""]
                  /\ Issue(Write("deleteDoc", "posts", posts[k].id, <<>>, currentUser))
    /\ event' = "PostsList.handleDeletePost"
    /\ UNCHANGED <<config, currentUser, snapshot, posts, postsListFrame>>

\* lines 73 and 76-78: deleteDoc resolved
PostsDeleted ==
    /\ \E i \in Pending("deleteDoc", "posts") : Settle(i)
    /\ postsList' = SetState(postsList, [postsList EXCEPT !.deletingId = "null"])
    /\ event' = "PostsList.deleted"
    /\ UNCHANGED <<config, currentUser, snapshot, posts, postsListFrame>>

\* lines 74-78: deleteDoc rejected
PostsDeleteFailed ==
    /\ \E i \in Pending("deleteDoc", "posts") : Settle(i)
    /\ \E err \in Thrown :
          postsList' = SetState(postsList,
                                [postsList EXCEPT
                                    !.error = MessageOr(err, "Unable to delete post."),
                                    !.deletingId = "null"])
    /\ event' = "PostsList.deleteFailed"
    /\ UNCHANGED <<config, currentUser, snapshot, posts, postsListFrame>>

PostsListSteps ==
    \/ PostsAuthCallback
    \/ PostsUnmount
    \/ PostsSnapshot
    \/ PostsStartEdit
    \/ PostsCancelEdit
    \/ PostsSetEditTitle
    \/ PostsSetEditBody
    \/ PostsSetEditTags
    \/ PostsHandleSave
    \/ PostsSaved
    \/ PostsSaveFailed
    \/ PostsHandleDeletePost
    \/ PostsDeleted
    \/ PostsDeleteFailed

(***************************************************************************)
(* The subscribe endpoint (src/unnamed/part_005): POST.                    *)
(***************************************************************************)
subscribeFrame ==
    <<pipelineVars, envVars, blogAdmin, snapshot, commentSection, postsList, loginForm>>

\* the values of an environment variable: missing, empty, set
EnvValues == {Undefined, <<>>, <<"k">>}

\* lines 5-9: getEnv()
Envs == [apiKey : EnvValues, audienceId : EnvValues, serverPrefix : EnvValues]

\* the content-type headers of the requests, as the list of their parts
\* (absent: no part)
ContentTypes ==
    {<<>>, <<"application/json">>, <<"application/json", "charset=utf-8">>,
     <<"application/x-www-form-urlencoded">>, <<"multipart/form-data", "boundary=x">>,
     <<"text/plain">>}

\* the values of the email field
Emails ==
    {<<>>, <<"a">>, <<"a", "@", "b">>, <<"@", "b", ".", "c">>, <<"a", "@", ".", "c">>,
     <<"a", "@", "b", ".">>, <<"a", " ", "@", "b", ".", "c">>,
     <<"a", "@", "b", ".", "c">>, <<" ", "a", "@", "b", ".", "c", " ">>}

\* the bodies of the requests: one that the parser refuses, the JSON value
\* null, and the fields of an object or a form, with the email field or
\* without it
Bodies ==
    {[kind |-> "malformed", email |-> Undefined], [kind |-> "null", email |-> Undefined],
     [kind |-> "fields", email |-> Undefined]}
    \cup {[kind |-> "fields", email |-> e] : e \in Emails}

Requests == [contentType : ContentTypes, body : Bodies]

\* contentType.includes(part)
Includes(contentType, part) == \E i \in DOMAIN contentType : contentType[i] = part

\* /\S+@\S+\.\S+/.test(value): somewhere in value, a character that is no
\* space, '@', one or more characters that are no spaces, '.', a character
\* that is no space
MatchesEmailPattern(value) ==
    \E i, j \in DOMAIN value :
        /\ i >= 2 /\ value[i] = "@" /\ value[i - 1] \notin SpaceChars
        /\ j >= i + 2 /\ value[j] = "."
        /\ \A k \in (i + 1)..(j - 1) : value[k] \notin SpaceChars
        /\ j + 1 <= Len(value) /\ value[j + 1] \notin SpaceChars

\* the email of a request without one
Null == <<"null">>

\* line 11: isValidEmail; null and '' are falsy
isValidEmail(value) ==
    value # Null /\ value # <<>> /\ MatchesEmailPattern(value)

\* !value of an environment variable
Falsy(value) == value = Undefined \/ value = <<>>

\* line 15: the test of the configuration
MissingConfiguration(env) ==
    Falsy(env.apiKey) \/ Falsy(env.audienceId) \/ Falsy(env.serverPrefix)

\* lines 22-28: which parser reads the body
ParserOf(contentType) ==
    IF Includes(contentType, "application/json") THEN "json"
    ELSE IF Includes(contentType, "application/x-www-form-urlencoded")
            \/ Includes(contentType, "multipart/form-data") THEN "formData"
    ELSE "none"

\* request.json() and request.formData() throw on a body they cannot parse;
\* body.email throws when the JSON value is null
ParseThrows(request) ==
    \/ ParserOf(request.contentType) # "none" /\ request.body.kind = "malformed"
    \/ ParserOf(request.contentType) = "json" /\ request.body.kind = "null"

\* lines 20-28: email, for a body that was parsed: body.email ?? null,
\* form.get('email') ?? null
EmailOf(request) ==
    IF ParserOf(request.contentType) = "none" \/ request.body.email = Undefined THEN Null
    ELSE request.body.email

Response(status, body) == [status |-> status, body |-> body]

NoResponse == Response(0, "none")

\* lines 13-35: POST up to the fetch: a response, an exception that leaves
\* the handler, or the request to the mailing-list API
Respond(env, request) ==
    IF MissingConfiguration(env)
    THEN [phase |-> "responded", response |-> Response(500, "Missing Mailchimp configuration")]
    ELSE IF ParseThrows(request) THEN [phase |-> "threw", response |-> NoResponse]
    ELSE IF ~isValidEmail(EmailOf(request))
    THEN [phase |-> "responded", response |-> Response(400, "Invalid email")]
    ELSE [phase |-> "fetching", response |-> NoResponse]

\* the bodies of the answers of the mailing-list API: one that is no JSON,
\* the JSON value null, and an object, its detail field absent, empty or set
ApiBodies ==
    {[kind |-> "not-json", detail |-> "absent"], [kind |-> "null", detail |-> "absent"],
     [kind |-> "object", detail |-> "absent"], [kind |-> "object", detail |-> ""],
     [kind |-> "object", detail |-> "Member Exists"]}

\* what the mailing-list API answers: response.ok, response.status and the
\* body
ApiAnswers ==
    {[kind |-> "answered", ok |-> TRUE, status |-> 200, body |-> b] : b \in ApiBodies}
    \cup {[kind |-> "answered", ok |-> FALSE, status |-> st, body |-> b] :
             st \in {400, 401}, b \in ApiBodies}

\* the fetch is still to be called or to settle
NoAnswer ==
    [kind |-> "none", ok |-> FALSE, status |-> 0,
     body |-> [kind |-> "not-json", detail |-> "absent"]]

\* the fetch rejected
FetchThrew == [NoAnswer EXCEPT !.kind = "threw"]

\* no request
SubscribeIdle ==
    subscribe = [env |-> [apiKey |-> Undefined, audienceId |-> Undefined,
                          serverPrefix |-> Undefined],
                 request |-> [contentType |-> <<>>,
                              body |-> [kind |-> "fields", email |-> Undefined]],
                 phase |-> "none", fetches |-> 0, answer |-> NoAnswer,
                 response |-> NoResponse]

\* a request has arrived
SubscribeInit ==
    \E env \in Envs, request \in Requests :
        subscribe = [env |-> env, request |-> request, phase |-> "received",
                     fetches |-> 0, answer |-> NoAnswer, response |-> NoResponse]

\* lines 13-48: the handler runs up to its first response or to the fetch
SubscribePost ==
    /\ subscribe.phase = "received"
    /\ subscribe' =
          [subscribe EXCEPT
              !.phase = Respond(subscribe.env, subscribe.request).phase,
              !.response = Respond(subscribe.env, subscribe.request).response,
              !.fetches = IF Respond(subscribe.env, subscribe.request).phase = "fetching"
                          THEN 1 ELSE 0]
    /\ UNCHANGED subscribeFrame

SubscriptionFailed == Response(500, "Subscription failed")

\* lines 50-59: the response to an answer: response.json().catch(() => ({}))
\* gives {} for a body that is no JSON and null for the JSON value null, of
\* which data.detail throws into the catch block of line 57
AnswerResponse(answer) ==
    IF answer.ok THEN Response(200, "Subscribed")
    ELSE IF answer.body.kind = "null" THEN SubscriptionFailed
    ELSE IF answer.body.kind = "object" /\ answer.body.detail \notin {"absent", ""}
    THEN Response(answer.status, answer.body.detail)
    ELSE Response(answer.status, "Unable to subscribe")

\* lines 50-56: the fetch resolved
SubscribeAnswered ==
    /\ subscribe.phase = "fetching"
    /\ \E answer \in ApiAnswers :
          subscribe' = [subscribe EXCEPT !.phase = "responded", !.answer = answer,
                                         !.response = AnswerResponse(answer)]
    /\ UNCHANGED subscribeFrame

\* lines 57-60: the fetch threw
SubscribeFetchFailed ==
    /\ subscribe.phase = "fetching"
    /\ subscribe' = [subscribe EXCEPT !.phase = "responded", !.answer = FetchThrew,
                                      !.response = SubscriptionFailed]
    /\ UNCHANGED subscribeFrame

SubscribeNext == SubscribePost \/ SubscribeAnswered \/ SubscribeFetchFailed

(***************************************************************************)
(* LoginForm (src/src/components/LoginForm.tsx).                           *)
(***************************************************************************)
loginFrame ==
    <<pipelineVars, config, writes, issued, blogAdmin, snapshot, commentSection,
      postsList, subscribe>>

\* what is typed into the email and password fields
LoginTexts == {<<"b", "@", "x">>}

\* the redirectTo prop: the default '/', or ''
RedirectTargets == {<<"/">>, <<>>}

\* what a failed auth call throws: a string, an Error, another value
LoginFailures ==
    {[isString |-> TRUE, isError |-> FALSE, message |-> "popup-closed"],
     [isString |-> FALSE, isError |-> TRUE, message |-> "Firebase: Error (auth/wrong-password)."],
     [isString |-> FALSE, isError |-> FALSE, message |-> ""]}

\* lines 16-20: formatErrorMessage
formatErrorMessage(error) ==
    IF error.isString THEN error.message
    ELSE IF error.isError THEN error.message
    ELSE "Unable to sign in. Please try again."

RedirectingMessage == "Signed in! Redirecting..."

\* no LoginForm on the page; call is the auth call in flight, timers the
\* number of redirects scheduled with setTimeout, calls the number of auth
\* calls made
LoginAbsent ==
    [redirectTo |-> <<"/">>, email |-> <<>>, password |-> <<>>, mode |-> "signin",
     user |-> NullUser, loading |-> FALSE, error |-> "", status |-> "",
     mounted |-> FALSE, authPending |-> FALSE, authSub |-> FALSE,
     call |-> "none", calls |-> 0, timers |-> 0, navigated |-> FALSE]

LoginIdle == loginForm = LoginAbsent

\* lines 22-35: the state after the first render and its effect
LoginInit ==
    \E target \in RedirectTargets :
        loginForm = [LoginAbsent EXCEPT !.redirectTo = target, !.mounted = TRUE,
                                        !.authPending = config.ready,
                                        !.authSub = config.ready]

\* line 33: the callback of onAuthStateChanged, while subscribed
LoginNotified(state, user) ==
    IF state.authSub /\ ~state.authPending /\ state.mounted
    THEN [state EXCEPT !.user = user] ELSE state

\* the first call of the auth listener
LoginAuthCallback ==
    /\ loginForm.authSub
    /\ loginForm.authPending
    /\ loginForm' = [loginForm EXCEPT !.user = currentUser, !.authPending = FALSE]
    /\ event' = "LoginForm.authCallback"
    /\ UNCHANGED <<currentUser, loginFrame>>

\* line 34: the cleanup of the effect, at unmount
LoginUnmount ==
    /\ loginForm.mounted
    /\ loginForm' = [loginForm EXCEPT !.mounted = FALSE, !.authSub = FALSE,
                                      !.authPending = FALSE]
    /\ event' = "LoginForm.unmount"
    /\ UNCHANGED <<currentUser, loginFrame>>

\* lines 37-51 and 114: the form is rendered
LoginShown == loginForm.mounted /\ config.ready

\* lines 121-131: the two mode buttons, disabled while loading
LoginSetMode ==
    /\ LoginShown
    /\ ~loginForm.loading
    /\ \E m \in {"signin", "signup"} \ {loginForm.mode} :
          loginForm' = [loginForm EXCEPT !.mode = m]
    /\ event' = "LoginForm.setMode"
    /\ UNCHANGED <<currentUser, loginFrame>>

\* lines 145 and 156: the onChange handlers of the two fields
LoginSetEmail ==
    /\ LoginShown
    /\ \E v \in LoginTexts \ {loginForm.email} : loginForm' = [loginForm EXCEPT !.email = v]
    /\ event' = "LoginForm.setEmail"
    /\ UNCHANGED <<currentUser, loginFrame>>

LoginSetPassword ==
    /\ LoginShown
    /\ \E v \in LoginTexts \ {loginForm.password} :
          loginForm' = [loginForm EXCEPT !.password = v]
    /\ event' = "LoginForm.setPassword"
    /\ UNCHANGED <<currentUser, loginFrame>>

\* lines 65-67 and 85-87: setLoading(true), setError(''), setStatus(''), and
\* the auth call
StartSignIn(state, call) ==
    [state EXCEPT !.loading = TRUE, !.error = "", !.status = "", !.call = call,
                  !.calls = @ + 1]

\* lines 61-74: handleEmailSubmit up to the await; the form is submitted
\* through its button, which is disabled while loading (line 162)
LoginHandleEmailSubmit ==
    /\ LoginShown
    /\ ~loginForm.loading
    /\ loginForm.calls < MaxCalls
    /\ loginForm' = StartSignIn(loginForm, IF loginForm.mode = "signin"
                                           THEN "signInWithEmailAndPassword"
                                           ELSE "createUserWithEmailAndPassword")
    /\ event' = "LoginForm.handleEmailSubmit"
    /\ UNCHANGED <<currentUser, loginFrame>>

\* lines 83-90: handleGoogleSignin up to the await; its button is disabled
\* while loading (line 173)
LoginHandleGoogleSignin ==
    /\ LoginShown
    /\ ~loginForm.loading
    /\ loginForm.calls < MaxCalls
    /\ loginForm' = StartSignIn(loginForm, "signInWithPopup")
    /\ event' = "LoginForm.handleGoogleSignin"
    /\ UNCHANGED <<currentUser, loginFrame>>

\* lines 99-105: handleSignOut up to the await; its button is rendered for a
\* signed-in user and disabled while loading (lines 199-203)
LoginHandleSignOut ==
    /\ LoginShown
    /\ loginForm.user # NullUser
    /\ ~loginForm.loading
    /\ loginForm.calls < MaxCalls
    /\ loginForm' = [loginForm EXCEPT !.loading = TRUE, !.error = "", !.call = "signOut",
                                      !.calls = @ + 1]
    /\ event' = "LoginForm.handleSignOut"
    /\ UNCHANGED <<currentUser, loginFrame>>

\* the state updates of a continuation: dropped when the component is
\* unmounted; the call has settled and the timers it set stay set
Continued(state, next) ==
    IF state.mounted THEN [next EXCEPT !.call = "none"]
    ELSE [state EXCEPT !.call = "none", !.timers = next.timers]

\* lines 53-59: redirectAfterAuth
redirectAfterAuth(state) ==
    IF state.redirectTo = <<>> THEN state
    ELSE [state EXCEPT !.status = RedirectingMessage, !.timers = @ + 1]

\* a catch block that redirects all the same
CatchAndRedirect(state, err) ==
    redirectAfterAuth([state EXCEPT !.error = formatErrorMessage(err)])

\* lines 76-77 and 92-93: the catch block of the sign-in handlers
CatchAuthError(state, err) == [state EXCEPT !.error = formatErrorMessage(err)]

SignInCalls ==
    {"signInWithEmailAndPassword", "createUserWithEmailAndPassword", "signInWithPopup"}

\* lines 75, 78-80 and 91, 94-96: the sign-in call resolved: the user is
\* signed in, the listener is called, then the continuation runs
LoginSignedIn ==
    /\ loginForm.call \in SignInCalls
    /\ ~loginForm.navigated
    /\ \E account \in Accounts :
          /\ currentUser' = account
          /\ loginForm' =
                Continued(loginForm,
                          [redirectAfterAuth(LoginNotified(loginForm, account))
                              EXCEPT !.loading = FALSE])
    /\ event' = "LoginForm.signedIn"
    /\ UNCHANGED loginFrame

\* lines 76-80 and 92-96: the sign-in call rejected
LoginAuthFailed ==
    /\ loginForm.call \in SignInCalls
    /\ ~loginForm.navigated
    /\ \E err \in LoginFailures :
          loginForm' = Continued(loginForm,
                                 [CatchAuthError(loginForm, err) EXCEPT !.loading = FALSE])
    /\ event' = "LoginForm.authFailed"
    /\ UNCHANGED <<currentUser, loginFrame>>

\* lines 105-106 and 109-111: signOut resolved
LoginSignedOut ==
    /\ loginForm.call = "signOut"
    /\ ~loginForm.navigated
    /\ currentUser' = NullUser
    /\ loginForm' =
          Continued(loginForm,
                    [LoginNotified(loginForm, NullUser)
                        EXCEPT !.status = "Signed out", !.loading = FALSE])
    /\ event' = "LoginForm.signedOut"
    /\ UNCHANGED loginFrame

\* lines 107-111: signOut rejected
LoginSignOutFailed ==
    /\ loginForm.call = "signOut"
    /\ ~loginForm.navigated
    /\ \E err \in LoginFailures :
          loginForm' = Continued(loginForm,
                                 [loginForm EXCEPT !.error = formatErrorMessage(err),
                                                   !.loading = FALSE])
    /\ event' = "LoginForm.signOutFailed"
    /\ UNCHANGED <<currentUser, loginFrame>>

\* lines 56-58: a timer fires: window.location.assign(redirectTo) leaves the
\* page, and with it the component and what it waits for
LoginRedirect ==
    /\ loginForm.timers > 0
    /\ ~loginForm.navigated
    /\ loginForm' = [loginForm EXCEPT !.navigated = TRUE, !.mounted = FALSE,
                                      !.authSub = FALSE, !.authPending = FALSE]
    /\ event' = "LoginForm.redirect"
    /\ UNCHANGED <<currentUser, loginFrame>>

LoginSteps ==
    \/ LoginAuthCallback
    \/ LoginUnmount
    \/ LoginSetMode
    \/ LoginSetEmail
    \/ LoginSetPassword
    \/ LoginHandleEmailSubmit
    \/ LoginHandleGoogleSignin
    \/ LoginHandleSignOut
    \/ LoginSignedIn
    \/ LoginAuthFailed
    \/ LoginSignedOut
    \/ LoginSignOutFailed
    \/ LoginRedirect

(***************************************************************************)
(* The page: the auth state and the components that listen to it.          *)
(***************************************************************************)
\* a change of the auth state calls the listeners that are subscribed;
\* BlogAdmin has none (it asks once, through waitForUser)
AuthStateChange ==
    /\ AuthChange
    /\ commentSection' = CommentsNotified(commentSection, currentUser')
    /\ postsList' = PostsNotified(postsList, currentUser')
    /\ loginForm' = LoginNotified(loginForm, currentUser')
    /\ UNCHANGED <<config, writes, issued, blogAdmin, snapshot, pipelineVars, subscribe>>

BlogAdminNext == AuthStateChange \/ BlogAdminSteps

CommentsNext == AuthStateChange \/ CommentsSteps

PostsListNext == AuthStateChange \/ PostsListSteps

LoginNext == AuthStateChange \/ LoginSteps

SnapshotIdle == snapshot = NoSnapshot

AppIdle ==
    EnvIdle /\ BlogAdminIdle /\ SnapshotIdle /\ CommentsIdle /\ PostsListIdle
    /\ SubscribeIdle /\ LoginIdle

(***************************************************************************)
(* Specifications.                                                         *)
(***************************************************************************)
Init == RenderInit /\ SlugIdle /\ NormIdle /\ AppIdle

Next == OnSnapshot \/ Rerender

\* PostsList: snapshots and render passes
Spec == Init /\ [][Next]_vars

SlugifyInit == RenderInit /\ SlugInit /\ NormIdle /\ AppIdle

SlugifyNext == CallSlugify

\* one call of slugify, on every input of the model
SpecSlugify == SlugifyInit /\ [][SlugifyNext]_vars

NormalizerInit == RenderInit /\ SlugIdle /\ NormInit /\ AppIdle

NormalizerNext == Paste

\* one paste, of every fragment of the model
SpecNormalizer == NormalizerInit /\ [][NormalizerNext]_vars

BlogAdminSpecInit ==
    RenderInit /\ SlugIdle /\ NormIdle /\ EnvInit /\ BlogAdminInit /\ SnapshotIdle
    /\ CommentsIdle /\ PostsListIdle /\ SubscribeIdle /\ LoginIdle

\* a BlogAdmin component from mount on, with the auth state changing
SpecBlogAdmin == BlogAdminSpecInit /\ [][BlogAdminNext]_vars

CommentsSpecInit ==
    RenderInit /\ SlugIdle /\ NormIdle /\ EnvInit /\ BlogAdminIdle /\ SnapshotIdle
    /\ CommentsInit /\ PostsListIdle /\ SubscribeIdle /\ LoginIdle

\* a CommentSection component from mount on, with the auth state changing
SpecComments == CommentsSpecInit /\ [][CommentsNext]_vars

PostsListSpecInit ==
    RenderInit /\ SlugIdle /\ NormIdle /\ EnvInit /\ BlogAdminIdle /\ SnapshotIdle
    /\ CommentsIdle /\ PostsListInit /\ SubscribeIdle /\ LoginIdle

\* the handlers of a PostsList component from mount on, with the auth state
\* and the collection changing
SpecPostsList == PostsListSpecInit /\ [][PostsListNext]_vars

\* a page mounts one of the three components
PageInit ==
    /\ RenderInit /\ SlugIdle /\ NormIdle /\ EnvInit /\ SnapshotIdle /\ SubscribeIdle
    /\ LoginIdle
    /\ \/ BlogAdminInit /\ CommentsIdle /\ PostsListIdle
       \/ BlogAdminIdle /\ CommentsInit /\ PostsListIdle
       \/ BlogAdminIdle /\ CommentsIdle /\ PostsListInit

PageNext == AuthStateChange \/ BlogAdminSteps \/ CommentsSteps \/ PostsListSteps

\* the component of a page from mount on, with the auth state and the
\* collections changing
SpecPage == PageInit /\ [][PageNext]_vars

SubscribeSpecInit ==
    /\ RenderInit /\ SlugIdle /\ NormIdle /\ EnvIdle /\ BlogAdminIdle
    /\ SnapshotIdle /\ CommentsIdle /\ PostsListIdle
    /\ SubscribeInit /\ LoginIdle

\* one request to the subscribe endpoint, for every configuration and
\* request of the model
SpecSubscribe == SubscribeSpecInit /\ [][SubscribeNext]_vars

LoginSpecInit ==
    /\ RenderInit /\ SlugIdle /\ NormIdle /\ EnvInit /\ BlogAdminIdle
    /\ SnapshotIdle /\ CommentsIdle /\ PostsListIdle /\ SubscribeIdle
    /\ LoginInit

\* a LoginForm component from mount on, with the auth state changing
SpecLoginForm == LoginSpecInit /\ [][LoginNext]_vars

(***************************************************************************)
(* Claims about the render pass (specification Spec).                      *)
(***************************************************************************)
\* the heading elements of a post's HTML, in order
HeadingsOf(pv) == SelectSeq(pv.html, LAMBDA e : e.tag = "h")

\* the heading elements of depth 1-3 of a post's HTML, in order
TocHeadingsOf(pv) == SelectSeq(pv.html, LAMBDA e : e.tag = "h" /\ e.level <= 3)

Distinct(ids) == \A i, j \in DOMAIN ids : i # j => ids[i] # ids[j]

IdsOf(entries) == [i \in DOMAIN entries |-> entries[i].id]

\* C1: in every render pass, for every post, the k-th contents entry and the
\* k-th heading element of depth 1-3 carry the same id, so that each contents
\* link #id resolves to its heading.
C1_TocIdsMatchHtmlIds ==
    \A k \in DOMAIN view :
        /\ Len(view[k].toc) = Len(TocHeadingsOf(view[k]))
        /\ \A i \in DOMAIN view[k].toc :
              view[k].toc[i].id = TocHeadingsOf(view[k])[i].id

\* C2: in every render pass, for every post, the ids of the contents entries
\* are pairwise distinct and the id attributes of the heading elements are
\* pairwise distinct.
C2_HeadingIdsUnique ==
    \A k \in DOMAIN view :
        /\ Distinct(IdsOf(view[k].toc))
        /\ Distinct(IdsOf(HeadingsOf(view[k])))

\* the id the numbering rule gives the i-th of the entries: its base slug if
\* no earlier entry has that base slug, else base-k after k earlier ones
NumberedId(entries, i) ==
    LET base == slugify(entries[i].text)
        k == Cardinality({j \in 1..(i - 1) : slugify(entries[j].text) = base})
    IN  IF k = 0 THEN base ELSE base \o <<"-">> \o ToDecimal(k)

\* C3: in every render pass, for every post, the headings that share a base
\* slug get base, base-1, base-2, ... in document order, in the contents list
\* and in the rendered HTML.
C3_RepeatsNumberedInOrder ==
    \A k \in DOMAIN view :
        /\ \A i \in DOMAIN view[k].toc :
              view[k].toc[i].id = NumberedId(view[k].toc, i)
        /\ \A i \in DOMAIN HeadingsOf(view[k]) :
              HeadingsOf(view[k])[i].id = NumberedId(HeadingsOf(view[k]), i)

\* step 2 of the slug derivation: the string without its leading and
\* trailing whitespace
StepTrim(s) ==
    LET keep == {i \in DOMAIN s : s[i] \notin SpaceChars}
        first == CHOOSE i \in keep : \A j \in keep : i <= j
        last == CHOOSE i \in keep : \A j \in keep : j <= i
    IN  IF keep = {} THEN <<>> ELSE SubSeq(s, first, last)

\* the number of '#' a line starts with
LeadingHashes(l) == Cardinality({n \in DOMAIN l : \A i \in 1..n : l[i] = "#"})

\* the lines of a body that are ATX headings, as [depth, text], in order
HeadingLinesOf(body) ==
    LET lines == SplitLines(IF body = Undefined THEN <<>> ELSE body)
        isHeading(l) ==
            /\ LeadingHashes(l) \in 1..6
            /\ (Len(l) = LeadingHashes(l) \/ l[LeadingHashes(l) + 1] \in SpaceChars)
        hs == SelectSeq(lines, isHeading)
    IN  [i \in DOMAIN hs |->
            [depth |-> LeadingHashes(hs[i]),
             text |-> StepTrim(SubSeq(hs[i], LeadingHashes(hs[i]) + 1, Len(hs[i])))]]

\* C4: for every post, the contents list is the headings of depth 1, 2 or 3
\* of the body in document order, and every heading of the body, of depth 4
\* or more too, has its element in the HTML with an id attribute.
C4_TocDepthsAndOrder ==
    /\ Len(view) = Len(posts)
    /\ \A k \in DOMAIN view :
          LET doc == HeadingLinesOf(posts[k].body)
              shallow == SelectSeq(doc, LAMBDA h : h.depth \in {1, 2, 3})
              toc == view[k].toc
              hs == HeadingsOf(view[k])
          IN  /\ \A i \in DOMAIN toc : toc[i].depth \in {1, 2, 3}
              /\ Len(toc) = Len(shallow)
              /\ \A i \in DOMAIN toc :
                    toc[i].depth = shallow[i].depth /\ toc[i].text = shallow[i].text
              /\ Len(hs) = Len(doc)
              /\ \A i \in DOMAIN hs :
                    /\ hs[i].level = doc[i].depth
                    /\ hs[i].text = doc[i].text
                    /\ hs[i].id # Undefined

\* a post with a heading of depth 4 after two headings of the contents list
C4_Witness ==
    \E k \in DOMAIN view :
        /\ Len(view[k].toc) = 2
        /\ Len(HeadingsOf(view[k])) = 3
        /\ HeadingsOf(view[k])[3].level = 4

\* C5: a render pass over the same posts yields the same contents lists and
\* the same HTML as the pass before it.
C5_RenderDeterministic == [][posts' = posts => view' = view]_vars

\* a second pass over a post with two headings of the same base slug
C5_Witness ==
    /\ cause = "rerender"
    /\ \E k \in DOMAIN view :
          /\ Len(view[k].toc) >= 2
          /\ slugify(view[k].toc[1].text) = slugify(view[k].toc[2].text)

\* C7: a post whose body is the empty string or undefined is rendered:
\* the callback does not throw, its contents list is empty and its HTML has
\* no heading element.
C7_EmptyBodyRenders ==
    /\ Len(view) = Len(posts)
    /\ \A k \in DOMAIN posts :
          posts[k].body \in {Undefined, <<>>} =>
              /\ ~view[k].failed
              /\ view[k].toc = <<>>
              /\ HeadingsOf(view[k]) = <<>>

\* a list with a post without body and a post with the empty body, rendered
C7_Witness ==
    /\ cause = "snapshot"
    /\ Len(view) = 2
    /\ {posts[k].body : k \in DOMAIN posts} = {Undefined, <<>>}

\* C8: what a post gets in a pass over the list is what it gets in a pass
\* over the list of that post alone, whatever the other posts and their
\* order; two posts of one list with the same body get the same ids.
C8_PostsIndependent ==
    /\ Len(view) = Len(posts)
    /\ \A k \in DOMAIN posts :
          view[k] = RenderPosts(<<posts[k]>>, <<>>).views[1]
    /\ \A k, l \in DOMAIN posts :
          posts[k].body = posts[l].body =>
              /\ view[k].toc = view[l].toc
              /\ view[k].html = view[l].html

\* two posts, rendered in one pass, whose first headings share a base slug
C8_Witness ==
    /\ Len(view) = 2
    /\ view[1].toc # <<>>
    /\ view[2].toc # <<>>
    /\ slugify(view[1].toc[1].text) = slugify(view[2].toc[1].text)

(***************************************************************************)
(* Claims about slugify (specification SpecSlugify).                       *)
(***************************************************************************)
\* steps 4 and 5: of every run of characters of the class only the first is
\* kept, as a hyphen
StepCollapse(s, class) ==
    LET starts == {i \in DOMAIN s : s[i] \notin class \/ i = 1 \/ s[i - 1] \notin class}
        nth(j) == CHOOSE i \in starts : Cardinality({h \in starts : h < i}) = j - 1
    IN  [j \in 1..Cardinality(starts) |->
            IF s[nth(j)] \in class THEN "-" ELSE s[nth(j)]]

\* the five steps, in order
SlugSteps(text) ==
    StepCollapse(
        StepCollapse(
            SelectSeq(StepTrim([i \in DOMAIN text |-> ToLowerChar(text[i])]),
                      LAMBDA c : c \in WordChars \/ c \in SpaceChars \/ c = "-"),
            SpaceChars),
        {"-"})

\* C6: slugify(text) is the text lowercased, then trimmed, then without the
\* characters that are no word character, whitespace or hyphen, then with
\* each run of whitespace as one hyphen, then with each run of hyphens as
\* one hyphen; 'Hello, World!' gives 'hello-world'.
C6_SlugifyIsTheFiveSteps ==
    slugOut # NotRun =>
        /\ slugOut = SlugSteps(IF slugIn = Undefined THEN <<>> ELSE slugIn)
        /\ slugIn = HelloWorldText =>
              slugOut = <<"h","e","l","l","o","-","w","o","r","l","d">>

\* slugify has run on 'Hello, World!'
C6_Witness == slugOut # NotRun /\ slugIn = HelloWorldText

(***************************************************************************)
(* Claims about the Normalizer (specification SpecNormalizer).             *)
(***************************************************************************)
\* the element types of the per-element policy table
PolicyTags ==
    {"#text", "strong", "b", "em", "i", "code", "a", "br", "p", "div",
     "h1", "h2", "h3", "h4", "ul", "ol", "li", "img"}

\* a node and all its descendants
RECURSIVE NodesOf(_)
NodesOf(node) ==
    {node} \cup UNION {NodesOf(node.children[i]) : i \in DOMAIN node.children}

\* the serializations of the nodes, one after the other
Concat(nodes) == Join([i \in DOMAIN nodes |-> serialize(nodes[i], Undefined)], <<>>)

\* the nesting depth of a node below the root
RECURSIVE DepthIn(_, _)
DepthIn(root, n) ==
    IF root = n THEN 0
    ELSE 1 + DepthIn(CHOOSE c \in {root.children[i] : i \in DOMAIN root.children} :
                        n \in NodesOf(c), n)

\* C9: after a paste, every element of the fragment whose type is not in the
\* policy table, at any nesting depth, serializes to exactly the concatenation
\* of the serializations of its children; the output for the fragment, whose
\* body is such an element, is that concatenation trimmed.
C9_UnknownTagsPassThrough ==
    markdown # NotRun =>
        /\ \A n \in NodesOf(fragment) :
              n.tag \notin PolicyTags => serialize(n, Undefined) = Concat(n.children)
        /\ markdown = StepTrim(Concat(fragment.children))

\* a paste of a fragment with an unknown element that has content, two levels
\* or more below the body
C9_Witness ==
    /\ markdown # NotRun
    /\ \E n \in NodesOf(fragment) :
          /\ n.tag \notin PolicyTags
          /\ DepthIn(fragment, n) >= 2
          /\ Concat(n.children) # <<>>
          /\ serialize(n, Undefined) = Concat(n.children)

\* an unordered list whose direct children are all list items
ListItemsOnly(n) ==
    n.tag = "ul" /\ \A i \in DOMAIN n.children : n.children[i].tag = "li"

\* '- c1', ..., '- ck' joined by newlines and followed by a blank line, ci
\* being the content of the i-th item
ExpectedList(n) ==
    Join([i \in DOMAIN n.children |-> <<"-", " ">> \o Concat(n.children[i].children)],
         <<"\n">>)
    \o <<"\n", "\n">>

\* the fragment is one unordered list of list items
SingleList ==
    /\ markdown # NotRun
    /\ Len(fragment.children) = 1
    /\ ListItemsOnly(fragment.children[1])

OneTwoList == <<"-", " ", "o", "n", "e", "\n", "-", " ", "t", "w", "o">>

BoldAItalicB == <<"*", "*", "a", "*", "*", " ", "*", "b", "*">>

\* the text with only the first character of every run of whitespace kept,
\* as a space
SpacesCollapsed(s) ==
    LET starts == {i \in DOMAIN s : s[i] \notin SpaceChars \/ i = 1 \/ s[i - 1] \notin SpaceChars}
        nth(j) == CHOOSE i \in starts : Cardinality({h \in starts : h < i}) = j - 1
    IN  [j \in 1..Cardinality(starts) |->
            IF s[nth(j)] \in SpaceChars THEN " " ELSE s[nth(j)]]

\* the content between the marks, or nothing when there is no content
Marked(mark, content) == IF content = <<>> THEN <<>> ELSE mark \o content \o mark

\* C11: after a paste, every strong element of the fragment serializes to
\* its children's concatenated serialization between '**', every emphasis
\* element to it between '*', every text node to its text with each run of
\* whitespace as one space; the output is the body's serialization trimmed,
\* and <p><strong>a</strong> <em>b</em></p> yields exactly '**a** *b*'.
C11_ParagraphExample ==
    markdown # NotRun =>
        /\ \A n \in NodesOf(fragment) :
              /\ n.tag \in {"strong", "b"} =>
                    serialize(n, Undefined) = Marked(<<"*", "*">>, Concat(n.children))
              /\ n.tag \in {"em", "i"} =>
                    serialize(n, Undefined) = Marked(<<"*">>, Concat(n.children))
              /\ n.tag = "#text" =>
                    serialize(n, Undefined) = SpacesCollapsed(n.text)
              /\ n.tag = "p" =>
                    serialize(n, Undefined) = Concat(n.children) \o <<"\n", "\n">>
        /\ markdown = StepTrim(serialize(fragment, Undefined))
        /\ fragment \in {Elem("body", <<ExampleParagraph>>),
                         Elem("body", <<ExampleParagraphSpaced>>)} =>
              markdown = BoldAItalicB

\* a paste of <p><strong>a</strong> <em>b</em></p>
C11_Witness ==
    /\ markdown = BoldAItalicB
    /\ fragment = Elem("body", <<ExampleParagraph>>)

\* '![alt](src)', alt being 'image' when the element has none; nothing
\* without src
ExpectedImage(n) ==
    IF n.src \in {Undefined, <<>>} THEN <<>>
    ELSE <<"!", "[">>
         \o (IF n.alt \in {Undefined, <<>>} THEN <<"i", "m", "a", "g", "e">> ELSE n.alt)
         \o <<"]", "(">> \o n.src \o <<")">>

\* C12: after a paste, every image element of the fragment serializes to
\* '![alt](src)' when it has a src, alt being 'image' when it has none, and
\* to the empty string when it has no src; a fragment that is one image
\* yields that text, '![image](x.png)' for <img src="x.png">.
C12_ImagePolicy ==
    markdown # NotRun =>
        /\ \A n \in NodesOf(fragment) :
              n.tag = "img" => serialize(n, Undefined) = ExpectedImage(n)
        /\ (Len(fragment.children) = 1 /\ fragment.children[1].tag = "img") =>
              markdown = ExpectedImage(fragment.children[1])
        /\ fragment = Elem("body", <<Image(XPng, Undefined)>>) =>
              markdown = <<"!", "[", "i", "m", "a", "g", "e", "]", "(">> \o XPng \o <<")">>
        /\ fragment = Elem("body", <<Image(Undefined, Alt)>>) => markdown = <<>>

\* a paste of <img src="x.png">
C12_Witness ==
    /\ markdown # NotRun
    /\ fragment = Elem("body", <<Image(XPng, Undefined)>>)

(***************************************************************************)
(* Claims about BlogAdmin (specification SpecBlogAdmin).                   *)
(***************************************************************************)
\* C13: every addDoc on the posts collection that BlogAdmin has in flight
\* was issued while the user signed in was the admin.
C13_OnlyAdminPublishes ==
    \A i \in DOMAIN writes :
        (writes[i].op = "addDoc" /\ writes[i].coll = "posts") =>
            isAdmin(writes[i].by, config.adminEmail)

\* the error of the first guard that fails, in the order backend, admin,
\* fields; "" if all pass
ExpectedSubmitError(ready, adminUser, title, body) ==
    CASE ~ready -> NotReadyMessage
      [] ready /\ ~adminUser -> AdminOnlyMessage
      [] ready /\ adminUser /\ (StepTrim(title) = <<>> \/ StepTrim(body) = <<>>) ->
            RequiredMessage
      [] OTHER -> ""

\* a step of handleSubmit in which a guard failed with this error
RejectedWith(message) ==
    /\ blogAdmin'.error = message
    /\ writes' = writes
    /\ issued' = issued
    /\ ~blogAdmin.loading /\ ~blogAdmin'.loading
    /\ blogAdmin'.title = blogAdmin.title
    /\ blogAdmin'.body = blogAdmin.body
    /\ blogAdmin'.tags = blogAdmin.tags

\* a step of handleSubmit that issued the write
WrittenTrimmed ==
    /\ Len(writes') = Len(writes) + 1
    /\ writes'[Len(writes')].op = "addDoc"
    /\ writes'[Len(writes')].coll = "posts"
    /\ writes'[Len(writes')].data.title = StepTrim(blogAdmin.title)
    /\ writes'[Len(writes')].data.body = StepTrim(blogAdmin.body)
    /\ writes'[Len(writes')].data.title # <<>>
    /\ writes'[Len(writes')].data.body # <<>>

\* C14: the guards of handleSubmit give, for every backend state, admin flag,
\* title and body, the error of the first failing guard in the order backend,
\* admin, fields; a step of handleSubmit with a failing guard sets that error,
\* issues no addDoc, leaves loading false and title, body and tags as they
\* were; a step with all guards passing issues one addDoc whose document
\* carries the trimmed title and body.
C14_SubmitGuards ==
    [][event' = "BlogAdmin.handleSubmit" =>
          /\ \A ready, adminUser \in BOOLEAN : \A title, body \in FieldTexts :
                SubmitError(ready, adminUser, title, body)
                    = ExpectedSubmitError(ready, adminUser, title, body)
          /\ IF ExpectedSubmitError(config.ready, blogAdmin.adminUser,
                                    blogAdmin.title, blogAdmin.body) # ""
             THEN RejectedWith(ExpectedSubmitError(config.ready, blogAdmin.adminUser,
                                                   blogAdmin.title, blogAdmin.body))
             ELSE WrittenTrimmed]_vars

\* handleSubmit has just refused a blank title or body
C14_Witness ==
    /\ event = "BlogAdmin.handleSubmit"
    /\ blogAdmin.error = RequiredMessage
    /\ writes = <<>>
    /\ trim(blogAdmin.title) = <<>> \/ trim(blogAdmin.body) = <<>>

\* the step is the completion of a successful publish request
PublishedStep ==
    /\ blogAdmin'.status = PublishedMessage
    /\ blogAdmin'.error = ""
    /\ blogAdmin'.title = <<>>
    /\ blogAdmin'.body = <<>>
    /\ blogAdmin'.tags = <<>>
    /\ ~blogAdmin'.loading

\* the step is the completion of a failed publish request
PublishFailedStep ==
    /\ blogAdmin'.error # ""
    /\ blogAdmin'.error \in {PermissionDeniedMessage, "Unable to publish post."}
                              \cup {err.message : err \in Failures}
    /\ blogAdmin'.status = ""
    /\ blogAdmin'.title = blogAdmin.title
    /\ blogAdmin'.body = blogAdmin.body
    /\ blogAdmin'.tags = blogAdmin.tags
    /\ ~blogAdmin'.loading

\* C15: while the component is mounted, the completion of a successful addDoc
\* leaves status 'Post published to Firestore.', error empty and title, body
\* and tags cleared; the completion of a failed addDoc leaves error set,
\* status empty and title, body and tags as typed; loading is false after
\* either, and loading is true exactly while a request is in flight.
C15_PublishOutcome ==
    [][blogAdmin.mounted =>
          /\ event' = "BlogAdmin.published" => PublishedStep
          /\ event' = "BlogAdmin.publishFailed" => PublishFailedStep
          /\ blogAdmin'.loading <=> (writes' # <<>>)]_vars

\* an image upload failed while the publish request was in flight, and the
\* request then succeeded
C15_Witness ==
    /\ event = "BlogAdmin.published"
    /\ blogAdmin.mounted
    /\ blogAdmin.status = PublishedMessage
    /\ blogAdmin.error # ""

(***************************************************************************)
(* Claims about CommentSection (checked under SpecComments).               *)
(***************************************************************************)
\* the error of the first guard that fails, the user before the text; "" if
\* both pass
ExpectedCommentError(user, text) ==
    CASE user = NullUser -> LoginRequiredMessage
      [] user # NullUser /\ StepTrim(text) = <<>> -> EmptyCommentMessage
      [] OTHER -> ""

\* a step of handleSubmit in which a guard failed with this error
CommentRejectedWith(message) ==
    /\ commentSection'.error = message
    /\ writes' = writes
    /\ issued' = issued
    /\ ~commentSection'.loading
    /\ commentSection'.text = commentSection.text
    /\ commentSection'.alias = commentSection.alias

\* a step of handleSubmit that issued the write, for a signed-in user and
\* with the trimmed text
CommentWritten ==
    /\ Len(writes') = Len(writes) + 1
    /\ writes'[Len(writes')].op = "addDoc"
    /\ writes'[Len(writes')].coll = CommentsPath(commentSection.postId)
    /\ writes'[Len(writes')].data.text = StepTrim(commentSection.text)
    /\ writes'[Len(writes')].data.text # <<>>
    /\ commentSection.user # NullUser
    /\ writes'[Len(writes')].data.userId = commentSection.user.uid

\* the completion of a successful addDoc
CommentPostedStep ==
    /\ commentSection'.text = <<>>
    /\ commentSection'.alias = commentSection.alias
    /\ commentSection'.error = commentSection.error
    /\ ~commentSection'.loading

\* the completion of a failed addDoc
CommentPostFailedStep ==
    /\ commentSection'.error # ""
    /\ commentSection'.error \in {f.message : f \in Failures} \cup {"Unable to post comment."}
    /\ commentSection'.text = commentSection.text
    /\ commentSection'.alias = commentSection.alias
    /\ ~commentSection'.loading

\* C16: the guards of handleSubmit give, for every user and text, 'You must
\* be logged in to comment.' without a user and else 'Comment cannot be
\* empty.' for a blank text; a step of handleSubmit with a failing guard sets
\* that error and issues no addDoc; a step with both guards passing issues one
\* addDoc with the trimmed text.  When the addDoc of a mounted component
\* succeeds the text is cleared and the alias kept; when it fails error is
\* set and text and alias are kept; loading is false after both.
C16_CommentSubmit ==
    [][/\ event' = "CommentSection.handleSubmit" =>
             /\ \A user \in Accounts \cup {NullUser} : \A text \in CommentTexts :
                   CommentError(user, TRUE, text) = ExpectedCommentError(user, text)
             /\ IF ExpectedCommentError(commentSection.user, commentSection.text) # ""
                THEN CommentRejectedWith(ExpectedCommentError(commentSection.user,
                                                              commentSection.text))
                ELSE CommentWritten
       /\ event' = "CommentSection.posted" /\ commentSection.mounted => CommentPostedStep
       /\ event' = "CommentSection.postFailed" /\ commentSection.mounted =>
             CommentPostFailedStep]_vars

\* a comment was posted with an alias typed: the text is cleared, the alias
\* is still there
C16_Witness ==
    /\ event = "CommentSection.posted"
    /\ commentSection.mounted
    /\ commentSection.text = <<>>
    /\ commentSection.alias # <<>>
    /\ ~commentSection.loading

(***************************************************************************)
(* Claims about the handlers of PostsList (checked under SpecPostsList).   *)
(***************************************************************************)
\* what handleSave does, by the admin flag and the trimmed fields
ExpectedSaveOutcome(admin, editTitle, editBody) ==
    CASE ~admin -> "return"
      [] admin /\ (StepTrim(editTitle) = <<>> \/ StepTrim(editBody) = <<>>) -> "rejected"
      [] OTHER -> "write"

\* the edit session is as it was
SessionKept ==
    /\ postsList'.editingId = postsList.editingId
    /\ postsList'.editTitle = postsList.editTitle
    /\ postsList'.editBody = postsList.editBody
    /\ postsList'.editTags = postsList.editTags

\* a step of handleSave that issued the update of the post being edited, with
\* the trimmed fields
UpdateWritten ==
    /\ Len(writes') = Len(writes) + 1
    /\ writes'[Len(writes')].op = "updateDoc"
    /\ writes'[Len(writes')].id = postsList.editingId
    /\ writes'[Len(writes')].data.title = StepTrim(postsList.editTitle)
    /\ writes'[Len(writes')].data.body = StepTrim(postsList.editBody)
    /\ writes'[Len(writes')].data.title # <<>>
    /\ writes'[Len(writes')].data.body # <<>>
    /\ postsList.admin
    /\ postsList'.savingId = postsList.editingId

\* the texts of the edit form of the model: what startEdit copies from a post
\* and what is typed
EditFieldTexts == EditTexts \cup EditBodyTexts \cup {<<>>, <<"t">>, <<"b">>}

MappedInOrder(items, docs) ==
    /\ Len(items) = Len(docs)
    /\ \A i \in 1..Len(docs) :
          /\ items[i].id = docs[i].id
          /\ DOMAIN items[i] = {"id"} \cup DOMAIN docs[i].data
          /\ \A f \in DOMAIN docs[i].data : items[i][f] = docs[i].data[f]

\* C18: whatever snapshots, auth changes and handlers have run, the posts of
\* PostsList are the documents of the snapshot its listener was called with
\* last (none before the first), each mapped to {id, ...data}, in the order
\* of the snapshot; the same holds for the comments of CommentSection.
C18_ListIsLastSnapshot ==
    /\ snapshot.to # "CommentSection" => MappedInOrder(posts, snapshot.docs)
    /\ snapshot.to # "PostsList" => MappedInOrder(commentSection.comments, snapshot.docs)

\* a save or a delete has completed while two posts are listed
C18_Witness ==
    /\ event \in {"PostsList.saved", "PostsList.deleted"}
    /\ postsList.mounted
    /\ snapshot.to = "PostsList"
    /\ Len(snapshot.docs) = 2
    /\ Len(posts) = 2

\* the React state of BlogAdmin (waiting tells whether the promise of
\* waitForUser is still to resolve; it is no state of the component)
BlogAdminState(state) == [state EXCEPT !.waiting = FALSE]

\* C19: no step changes the state of a component that is unmounted: not the
\* posts and the admin flag of PostsList, not the user, the comments and the
\* other state of CommentSection, not the admin flag of BlogAdmin when
\* waitForUser resolves late; and every snapshot the listener of
\* CommentSection is called with is one of the comments of its current
\* postId.
C19_CancelledOnTeardown ==
    [][/\ ~postsList.mounted => postsList' = postsList /\ posts' = posts
       /\ ~commentSection.mounted => commentSection' = commentSection
       /\ ~blogAdmin.mounted => BlogAdminState(blogAdmin') = BlogAdminState(blogAdmin)
       /\ event' = "CommentSection.snapshot" =>
             /\ commentSection.mounted
             /\ snapshot'.path = CommentsPath(commentSection.postId)
             /\ commentSection'.postId = commentSection.postId]_vars

\* the postId has changed and a snapshot of the new post's comments has
\* replaced the comments of the old post
C19_Witness ==
    /\ event = "CommentSection.snapshot"
    /\ commentSection.postId = "p2"
    /\ snapshot.path = CommentsPath("p2")
    /\ commentSection.comments # <<>>
    /\ \A k \in DOMAIN commentSection.comments :
          commentSection.comments[k].id \in {CommentIds("p2")[1], CommentIds("p2")[2]}

(***************************************************************************)
(* Claims about the subscribe endpoint (checked under SpecSubscribe).      *)
(***************************************************************************)
\* one of the three settings is missing or empty
ConfigurationMissing(env) ==
    \E name \in {"apiKey", "audienceId", "serverPrefix"} : env[name] \in {Undefined, <<>>}

\* the content type is JSON, url-encoded or multipart
KnownContentType(contentType) ==
    \E i \in DOMAIN contentType :
        contentType[i] \in {"application/json", "application/x-www-form-urlencoded",
                            "multipart/form-data"}

\* the emails of the model that match the pattern
EmailsOfPattern ==
    {<<"a", "@", "b", ".", "c">>, <<" ", "a", "@", "b", ".", "c", " ">>}

\* the request carries no email that matches the pattern, in a body of a
\* known content type
EmailRejected(request) ==
    \/ ~KnownContentType(request.contentType)
    \/ request.body.kind # "fields"
    \/ request.body.email = Undefined
    \/ request.body.email \notin EmailsOfPattern

\* C20: once the handler has run, a request under a missing configuration
\* was answered 500 'Missing Mailchimp configuration' whatever it contains;
\* under a full configuration, a request whose email is absent or does not
\* match the pattern, or whose content type is none of the three, was
\* answered 400 'Invalid email'; the mailing-list API was contacted only when
\* both tests passed.
C20_ChecksInOrder ==
    subscribe.phase \notin {"none", "received"} =>
        /\ ConfigurationMissing(subscribe.env) =>
              /\ subscribe.response = Response(500, "Missing Mailchimp configuration")
              /\ subscribe.fetches = 0
        /\ ~ConfigurationMissing(subscribe.env) /\ EmailRejected(subscribe.request) =>
              /\ subscribe.response = Response(400, "Invalid email")
              /\ subscribe.fetches = 0
        /\ subscribe.fetches > 0 =>
              ~ConfigurationMissing(subscribe.env) /\ ~EmailRejected(subscribe.request)

\* the body of a JSON request could not be read: the handler has thrown and
\* has answered nothing
C20_Witness ==
    /\ subscribe.phase = "threw"
    /\ ~ConfigurationMissing(subscribe.env)
    /\ subscribe.response = NoResponse
    /\ subscribe.fetches = 0

\* the error the claim gives for an answer that is not OK: the detail of the
\* upstream body, 'Unable to subscribe' when it has none or is no JSON
ExpectedSubscribeError(body) ==
    IF body.kind = "object" /\ body.detail # "absent" /\ body.detail # ""
    THEN body.detail ELSE "Unable to subscribe"

\* C21: once the outbound call has settled: an OK answer was passed on as
\* 200 'Subscribed'; an answer with a status that is not OK was passed on
\* with that status and the detail of its body, or 'Unable to subscribe'
\* when the body has no detail or is no JSON; a call that threw was answered
\* 500 'Subscription failed'.
C21_UpstreamOutcome ==
    subscribe.answer.kind # "none" =>
        /\ subscribe.fetches = 1
        /\ subscribe.answer.kind = "answered" /\ subscribe.answer.ok =>
              subscribe.response = Response(200, "Subscribed")
        /\ subscribe.answer.kind = "answered" /\ ~subscribe.answer.ok =>
              subscribe.response
                  = Response(subscribe.answer.status,
                             ExpectedSubscribeError(subscribe.answer.body))
        /\ subscribe.answer.kind = "threw" =>
              subscribe.response = Response(500, "Subscription failed")

\* the API has answered 400 with the JSON value null as its body, and the
\* handler has answered 500 'Subscription failed'
C21_Witness ==
    /\ subscribe.answer.kind = "answered"
    /\ subscribe.answer.status = 400
    /\ subscribe.answer.body.kind = "null"
    /\ subscribe.response = Response(500, "Subscription failed")

(***************************************************************************)
(* Claims about LoginForm (specification SpecLoginForm).                   *)
(***************************************************************************)
LoginCompletions ==
    {"LoginForm.signedIn", "LoginForm.authFailed", "LoginForm.signedOut",
     "LoginForm.signOutFailed"}

\* C22: a redirect is scheduled only by the continuation of a sign-in,
\* account-creation or popup call that resolved, and then once; a failed
\* call sets error to the failure's message and schedules none; the sign-out
\* handler schedules none; loading is false when a handler has completed, and
\* a mounted form is loading exactly while an auth call is in flight.
C22_RedirectOnlyAfterSignIn ==
    [][/\ loginForm'.timers # loginForm.timers =>
            /\ event' = "LoginForm.signedIn"
            /\ loginForm.call \in SignInCalls
            /\ loginForm.redirectTo # <<>>
            /\ loginForm'.timers = loginForm.timers + 1
       /\ event' = "LoginForm.authFailed" =>
            /\ loginForm'.timers = loginForm.timers
            /\ loginForm.mounted =>
                  loginForm'.error \in {formatErrorMessage(err) : err \in LoginFailures}
       /\ event' \in {"LoginForm.handleSignOut", "LoginForm.signedOut",
                      "LoginForm.signOutFailed"} =>
            loginForm'.timers = loginForm.timers
       /\ event' \in LoginCompletions /\ loginForm.mounted =>
            ~loginForm'.loading /\ loginForm'.call = "none"
       /\ loginForm'.mounted => (loginForm'.loading <=> loginForm'.call # "none")
      ]_vars

\* a sign-in has failed after an earlier one succeeded: the one redirect of
\* the first is scheduled, the error of the second is shown
C22_Witness ==
    /\ event = "LoginForm.authFailed"
    /\ loginForm.mounted
    /\ loginForm.timers = 1
    /\ loginForm.calls = 2
    /\ loginForm.error # ""
    /\ ~loginForm.loading

(***************************************************************************)
(* Claims about overlapping edits in PostsList (specification              *)
(* SpecPostsList).                                                         *)
(***************************************************************************)
\* an updateDoc of the posts collection is in flight for a post while the
\* edit form of another post is open
SavingBesideEdit(i) ==
    /\ i \in Pending("updateDoc", "posts")
    /\ postsList.mounted
    /\ postsList.editingId \notin {"null", writes[i].id}

\* C23: when the save of a post P completes successfully while the edit
\* session of another post Q is open, editingId stays Q and Q's edit title
\* and edit body stay as they are.
C23_SaveClosesOnlyItsSession ==
    [][\A i \in DOMAIN writes :
          /\ SavingBesideEdit(i)
          /\ event' = "PostsList.saved"
          /\ writes' = SubSeq(writes, 1, i - 1) \o SubSeq(writes, i + 1, Len(writes))
          => /\ postsList'.editingId = postsList.editingId
             /\ postsList'.editTitle = postsList.editTitle
             /\ postsList'.editBody = postsList.editBody
      ]_vars

\* the save of one post is in flight, the admin has opened the edit form of
\* another post and typed into its title
C23_Witness ==
    \E i \in DOMAIN writes :
        /\ SavingBesideEdit(i)
        /\ postsList.savingId = writes[i].id
        /\ postsList.admin
        /\ postsList.editTitle \in EditTexts

====
